---- MODULE Spec2Model ----
(***************************************************************************)
(* Price intelligence of the Agricola Montserrat ledger (src/app.py):      *)
(* predecir_precio_proxima_semana, analizar_mejor_dia_compra,              *)
(* detectar_patrones_estacionales and analizar_precios_historicos.         *)
(*                                                                         *)
(* A DataFrame is a sequence of rows; a row is a record with the columns   *)
(* the functions read.  Prices are whole pesos, so sums, means and the     *)
(* weighted average are exact rationals [num, den]; IEEE rounding of the   *)
(* float64 arithmetic is not modelled.  Only np.std is irrational: its     *)
(* square root is truncated to 1/PrecisionRaiz.  A float64 division by     *)
(* zero yields inf or nan as numpy does; a division by zero of Python      *)
(* floats raises ZeroDivisionError.                                        *)
(***************************************************************************)
EXTENDS Integers, Sequences, FiniteSets, TLC

\* the arguments and results of the price functions; the table ventas_2026
\* of the ledger and its id sequence; the other tables the app writes, the
\* st.cache_data store of the loaders, the number of writes made to the
\* tables each loader reads, the script run of each browser session and
\* the values of the last guardar_meta call that returned; st.session_state
\* of each session, st.secrets and how far each session's script run got;
\* the frame of sales of a run, its date, the alerts of the banner and the
\* colours of the rows of the cartera; the prepared records of the 2025
\* upload, the index of its loop, its two counters, the batches it has
\* sent, the table ventas_2025 and the stage of the script
VARIABLES df, df_2026, producto, llamada, df_prod, df_2026_prod, resultado,
          ventas_2026, secuencia_id,
          gastos_fijos_2026, configuracion_caja, notas_precios,
          metas_mensuales, cache, version, sesion, ultima_meta,
          session_state, secrets, ejecucion,
          df_ventas, hoy, alertas_criticas, colores,
          registros, indice, total_insertados, errores_carga, intentos,
          ventas_2025, etapa

precios_vars ==
    <<df, df_2026, producto, llamada, df_prod, df_2026_prod, resultado>>
ventas_vars == <<ventas_2026, secuencia_id>>
sesiones_vars ==
    <<gastos_fijos_2026, configuracion_caja, notas_precios, metas_mensuales,
      cache, version, sesion, ultima_meta>>
acceso_vars == <<session_state, secrets, ejecucion>>
cartera_vars == <<df_ventas, hoy, alertas_criticas, colores>>
carga_vars ==
    <<registros, indice, total_insertados, errores_carga, intentos, ventas_2025,
      etapa>>
resto_vars == <<sesiones_vars, acceso_vars, cartera_vars, carga_vars>>
app_vars == <<ventas_vars, resto_vars>>

vars == <<precios_vars, app_vars>>

----------------------------------------------------------------------------
(* Bounds of the model *)

\* rows of a general input series
MaxFilas == 4
\* rows of one calendar month in a seasonal input series
MaxPorMes == 6
\* rows of each period in a two-period input
MaxFilasHist == 1
\* the square root of np.std is truncated to 1/PrecisionRaiz
PrecisionRaiz == 10

----------------------------------------------------------------------------
(* Exact rationals *)

Abs(x) == IF x < 0 THEN -x ELSE x

RECURSIVE GCD(_, _)
GCD(a, b) == IF b = 0 THEN a ELSE GCD(b, a % b)

Rat(n, d) ==
    LET g == GCD(Abs(n), Abs(d))
        s == IF d < 0 THEN -1 ELSE 1
    IN  [num |-> (s * n) \div g, den |-> (s * d) \div g]

Entero(n) == [num |-> n, den |-> 1]

RAdd(a, b) == Rat(a.num * b.den + b.num * a.den, a.den * b.den)
RSub(a, b) == Rat(a.num * b.den - b.num * a.den, a.den * b.den)
RMul(a, b) == Rat(a.num * b.num, a.den * b.den)
\* b # 0
RDiv(a, b) == Rat(a.num * b.den, a.den * b.num)
RLt(a, b) == a.num * b.den < b.num * a.den
RLe(a, b) == a.num * b.den <= b.num * a.den
RMax(a, b) == IF RLt(a, b) THEN b ELSE a

(* float64 quotient: finite, or inf / -inf / nan when the divisor is zero *)
Finito(r) == [clase |-> "finito", valor |-> r]
FDiv(a, b) ==
    IF b.num # 0 THEN Finito(RDiv(a, b))
    ELSE IF a.num > 0 THEN [clase |-> "inf"]
    ELSE IF a.num < 0 THEN [clase |-> "-inf"]
    ELSE [clase |-> "nan"]
FMul(x, r) ==
    IF x.clase = "finito" THEN Finito(RMul(x.valor, r)) ELSE x
\* x > r and x < r as float64 compares them: every comparison with nan is false
FGt(x, r) == \/ x.clase = "inf"
             \/ x.clase = "finito" /\ RLt(r, x.valor)
FLt(x, r) == \/ x.clase = "-inf"
             \/ x.clase = "finito" /\ RLt(x.valor, r)

RECURSIVE RaizEntre(_, _, _)
\* the r in lo..hi-1 with r*r <= x < (r+1)*(r+1), given lo*lo <= x < hi*hi
RaizEntre(x, lo, hi) ==
    IF hi - lo <= 1 THEN lo
    ELSE LET mid == (lo + hi) \div 2
         IN  IF mid * mid <= x THEN RaizEntre(x, mid, hi)
             ELSE RaizEntre(x, lo, mid)

RaizEntera(x) == RaizEntre(x, 0, IF x + 1 < 46341 THEN x + 1 ELSE 46341)

----------------------------------------------------------------------------
(* float64 product of a whole number and a decimal literal.  The literal is
   the binary fraction mant / 2^exp nearest to the decimal text; the product
   is rounded to 53 significant bits, ties to even.  Naturals wider than the
   machine word are little-endian sequences of limbs below Base. *)

Base == 32768

RECURSIVE GNorm(_)
\* drops the high-order zero limbs
GNorm(a) ==
    IF a = <<>> \/ a[Len(a)] # 0 THEN a ELSE GNorm(SubSeq(a, 1, Len(a) - 1))

RECURSIVE GPorAcarreo(_, _, _)
GPorAcarreo(a, k, acarreo) ==
    IF a = <<>>
    THEN IF acarreo = 0 THEN <<>>
         ELSE <<acarreo % Base>> \o GPorAcarreo(<<>>, k, acarreo \div Base)
    ELSE LET t == Head(a) * k + acarreo
         IN  <<t % Base>> \o GPorAcarreo(Tail(a), k, t \div Base)

\* a * k for 0 <= k < Base
GPor(a, k) == GNorm(GPorAcarreo(a, k, 0))

RECURSIVE GDe(_)
\* the limbs of a whole number n >= 0
GDe(n) == IF n = 0 THEN <<>> ELSE <<n % Base>> \o GDe(n \div Base)

RECURSIVE GSumaAcarreo(_, _, _)
GSumaAcarreo(a, b, acarreo) ==
    IF a = <<>> /\ b = <<>>
    THEN IF acarreo = 0 THEN <<>> ELSE <<acarreo>>
    ELSE LET x == IF a = <<>> THEN 0 ELSE Head(a)
             y == IF b = <<>> THEN 0 ELSE Head(b)
             t == x + y + acarreo
         IN  <<t % Base>>
             \o GSumaAcarreo(IF a = <<>> THEN a ELSE Tail(a),
                             IF b = <<>> THEN b ELSE Tail(b), t \div Base)

GSuma(a, b) == GNorm(GSumaAcarreo(a, b, 0))

RECURSIVE GMul(_, _)
GMul(a, b) ==
    IF b = <<>> THEN <<>>
    ELSE GSuma(GPor(a, Head(b)), GNorm(<<0>> \o GMul(a, Tail(b))))

RECURSIVE GDividir(_, _)
\* quotient and remainder of a by d, for 0 < d <= Base
GDividir(a, d) ==
    IF a = <<>> THEN [coc |-> <<>>, resto |-> 0]
    ELSE LET sup == GDividir(Tail(a), d)
             t == sup.resto * Base + Head(a)
         IN  [coc |-> <<t \div d>> \o sup.coc, resto |-> t % d]

RECURSIVE GMenor(_, _)
\* a < b, both without high-order zero limbs
GMenor(a, b) ==
    IF Len(a) # Len(b) THEN Len(a) < Len(b)
    ELSE IF a = <<>> THEN FALSE
    ELSE IF a[Len(a)] # b[Len(b)] THEN a[Len(a)] < b[Len(b)]
    ELSE GMenor(SubSeq(a, 1, Len(a) - 1), SubSeq(b, 1, Len(b) - 1))

\* 2^s: Base is 2^15
GDos(s) == [i \in 1..(s \div 15) |-> 0] \o <<2 ^ (s % 15)>>

\* a \div 2^s
GTruncar(a, s) ==
    GNorm(GDividir(SubSeq(a, (s \div 15) + 1, Len(a)), 2 ^ (s % 15)).coc)

\* 2^52 and 2^53: 128 * Base^3 and 256 * Base^3
DosA52 == <<0, 0, 0, 128>>
DosA53 == <<0, 0, 0, 256>>

\* the float64 values of the literals 1.15, 0.85, 1.1 and 0.9: mant / escala
Literal115 ==
    [mant |-> <<26214, 19660, 6553, 147>>, escala |-> DosA52,
     decimal |-> Rat(115, 100)]
Literal085 ==
    [mant |-> <<13107, 26214, 19660, 217>>, escala |-> DosA53,
     decimal |-> Rat(85, 100)]
Literal11 ==
    [mant |-> <<6554, 13107, 26214, 140>>, escala |-> DosA52,
     decimal |-> Rat(11, 10)]
Literal09 ==
    [mant |-> <<19661, 6553, 13107, 230>>, escala |-> DosA53,
     decimal |-> Rat(9, 10)]

\* the least s with p / 2^s < 2^53, for p < 2^84
Desplazamiento(p) ==
    LET Cabe(s) == GMenor(GTruncar(p, s), DosA53)
    IN  CHOOSE s \in 0..31 : Cabe(s) /\ \A t \in 0..(s - 1) : ~Cabe(t)

\* k * lit in float64 for a whole k >= 0, as [sig, des]: the value is
\* sig * 2^des / lit.escala
ProductoFlotante(k, lit) ==
    LET p == GMul(lit.mant, GDe(k))
        s == Desplazamiento(p)
        q == GTruncar(p, s)
        \* 2p against (2q + 1) * 2^s: the dropped bits against one half
        doble == GPor(p, 2)
        mitad == GMul(GSuma(GPor(q, 2), <<1>>), GDos(s))
        arriba == \/ GMenor(mitad, doble)
                  \/ mitad = doble /\ q # <<>> /\ q[1] % 2 = 1
    IN  [sig |-> IF arriba THEN GSuma(q, <<1>>) ELSE q, des |-> s]

\* m > pg * lit and m < pg * lit as float64 evaluates them.  Only when m is
\* the decimal product does the rounding decide: the error of the float
\* product is far below the distance of any other m.  Whole m and pg are
\* exact floats, so that the product is rounded once.
EnElUmbral(m, pg, lit) ==
    /\ m = RMul(pg, lit.decimal)
    /\ m.den = 1 /\ pg.den = 1 /\ m.num >= 0 /\ pg.num >= 0
MayorQueProducto(m, pg, lit) ==
    IF EnElUmbral(m, pg, lit)
    THEN LET f == ProductoFlotante(pg.num, lit)
         IN  GMenor(GMul(f.sig, GDos(f.des)), GMul(lit.escala, GDe(m.num)))
    ELSE RLt(RMul(pg, lit.decimal), m)
MenorQueProducto(m, pg, lit) ==
    IF EnElUmbral(m, pg, lit)
    THEN LET f == ProductoFlotante(pg.num, lit)
         IN  GMenor(GMul(lit.escala, GDe(m.num)), GMul(f.sig, GDos(f.des)))
    ELSE RLt(m, RMul(pg, lit.decimal))

----------------------------------------------------------------------------
(* Sequences *)

RECURSIVE Suma(_)
Suma(s) == IF s = <<>> THEN 0 ELSE Head(s) + Suma(Tail(s))

RECURSIVE SumaRat(_)
SumaRat(s) == IF s = <<>> THEN Entero(0) ELSE RAdd(Head(s), SumaRat(Tail(s)))

Columna(s, c) == [i \in 1..Len(s) |-> s[i][c]]

Primeros(s, k) == IF Len(s) <= k THEN s ELSE SubSeq(s, 1, k)

\* s.tail(k)
Ultimos(s, k) == IF Len(s) <= k THEN s ELSE SubSeq(s, Len(s) - k + 1, Len(s))

\* np.mean of a non-empty array of whole numbers
Media(xs) == Rat(Suma(xs), Len(xs))

----------------------------------------------------------------------------
(* Calendar: fecha is a record [anio, mes, dia] of the Gregorian calendar *)

EsBisiesto(a) == (a % 4 = 0 /\ a % 100 # 0) \/ a % 400 = 0

\* the days of a common year before each month
DiasAcumulados == <<0, 31, 59, 90, 120, 151, 181, 212, 243, 273, 304, 334>>

DiasAntesDeMes(a, m) ==
    DiasAcumulados[m] + (IF m > 2 /\ EsBisiesto(a) THEN 1 ELSE 0)

\* days since 0001-01-01, which is day 1 and a Monday
Ordinal(f) ==
    LET y == f.anio - 1
    IN  365 * y + (y \div 4) - (y \div 100) + (y \div 400)
        + DiasAntesDeMes(f.anio, f.mes) + f.dia

NombresDeDias ==
    <<"Monday", "Tuesday", "Wednesday", "Thursday", "Friday", "Saturday",
      "Sunday">>

\* Series.dt.day_name()
day_name(f) == NombresDeDias[((Ordinal(f) + 6) % 7) + 1]

\* a < b for two dates
FechaMenor(a, b) ==
    \/ a.anio < b.anio
    \/ a.anio = b.anio /\ a.mes < b.mes
    \/ a.anio = b.anio /\ a.mes = b.mes /\ a.dia < b.dia

semana_sin_desplazar(fecha) == (fecha.dia \div 7) + 1

obtener_semana_del_mes(fecha) == ((fecha.dia - 1) \div 7) + 1

----------------------------------------------------------------------------
(* Selection and ordering of rows *)

\* df[df['producto'] == producto].copy()
FiltrarProducto(d, p) == SelectSeq(d, LAMBDA r : r.producto = p)

\* df_2026[df_2026['Producto'] == producto].copy()
FiltrarProducto2026(d, p) == SelectSeq(d, LAMBDA r : r.Producto = p)

RECURSIVE Insertar(_, _)
\* r placed after every row of the sorted s whose fecha is not later
Insertar(s, r) ==
    IF s = <<>> THEN <<r>>
    ELSE IF FechaMenor(r.fecha, s[Len(s)].fecha)
         THEN Append(Insertar(SubSeq(s, 1, Len(s) - 1), r), s[Len(s)])
         ELSE Append(s, r)

RECURSIVE sort_values(_)
\* df_prod.sort_values('fecha'): ascending; rows of one fecha keep their order
\* (numpy sorts arrays this short by insertion)
sort_values(s) ==
    IF s = <<>> THEN <<>>
    ELSE Insertar(sort_values(SubSeq(s, 1, Len(s) - 1)), s[Len(s)])

----------------------------------------------------------------------------
(* predecir_precio_proxima_semana *)

\* len(df_prod) < 4
MinOperacionesPrediccion == 4
\* df_prod['precio_compra'].tail(8)
VentanaPrecios == 8
\* diferencia_pct > 10, diferencia_pct < -10
UmbralTendencia == 10

PrediccionInicial ==
    [precio_estimado |-> Entero(0), confianza |-> Entero(0),
     rango_min |-> Entero(0), rango_max |-> Entero(0),
     tendencia |-> "estable", sugerencia |-> <<"">>]

\* np.array([1, 1.5, 2, 2.5, 3, 3.5, 4, 4.5])[:n]
Pesos(n) == [i \in 1..n |-> Rat(i + 1, 2)]

\* np.average(xs, weights=ws)
np_average(xs, ws) ==
    RDiv(SumaRat([i \in 1..Len(xs) |-> RMul(Entero(xs[i]), ws[i])]),
         SumaRat(ws))

\* np.std(xs): the population standard deviation, sqrt(n*sum(x^2) - sum(x)^2) / n
np_std(xs) ==
    LET n == Len(xs)
        v == n * Suma([i \in 1..n |-> xs[i] * xs[i]]) - Suma(xs) * Suma(xs)
    IN  Rat(RaizEntera(v * PrecisionRaiz * PrecisionRaiz), n * PrecisionRaiz)

\* ((promedio_reciente - promedio_antiguo) / promedio_antiguo) * 100
DiferenciaPct(ultimos_precios) ==
    LET mitad == Len(ultimos_precios) \div 2
        promedio_antiguo == Media(SubSeq(ultimos_precios, 1, mitad))
        promedio_reciente ==
            Media(SubSeq(ultimos_precios, mitad + 1, Len(ultimos_precios)))
    IN  FMul(FDiv(RSub(promedio_reciente, promedio_antiguo), promedio_antiguo),
             Entero(100))

Tendencia_umbral_inclusivo(ultimos_precios) ==
    LET diferencia_pct == DiferenciaPct(ultimos_precios)
    IN  IF FGt(diferencia_pct, Entero(UmbralTendencia))
           \/ diferencia_pct = Finito(Entero(UmbralTendencia)) THEN "subida"
        ELSE IF FLt(diferencia_pct, Entero(-UmbralTendencia)) THEN "bajada"
        ELSE "estable"

Tendencia(ultimos_precios) ==
    LET diferencia_pct == DiferenciaPct(ultimos_precios)
    IN  IF FGt(diferencia_pct, Entero(UmbralTendencia)) THEN "subida"
        ELSE IF FLt(diferencia_pct, Entero(-UmbralTendencia)) THEN "bajada"
        ELSE "estable"

RangoMin_sin_tope(precio_pred, desviacion) == RSub(precio_pred, desviacion)

\* max(0, precio_pred - desviacion)
RangoMin(precio_pred, desviacion) ==
    RMax(Entero(0), RSub(precio_pred, desviacion))

\* precio_pred + desviacion
RangoMax(precio_pred, desviacion) == RAdd(precio_pred, desviacion)

Confianza_sin_tope(precio_pred, desviacion) ==
    IF RLt(Entero(0), precio_pred)
    THEN RSub(Entero(100), RMul(RDiv(desviacion, precio_pred), Entero(100)))
    ELSE Entero(0)

\* max(0, 100 - coef_variacion)
Confianza(precio_pred, desviacion) ==
    LET coef_variacion ==
            IF RLt(Entero(0), precio_pred)
            THEN RMul(RDiv(desviacion, precio_pred), Entero(100))
            ELSE Entero(100)
    IN  RMax(Entero(0), RSub(Entero(100), coef_variacion))

\* the text of sugerencia is fixed by tendencia and diferencia_pct
Sugerencia(tendencia, diferencia_pct) ==
    IF tendencia = "subida" THEN <<"alcista", diferencia_pct>>
    ELSE IF tendencia = "bajada" THEN <<"bajista", diferencia_pct>>
    ELSE <<"estable">>

\* the function's df_prod and its return value
predecir_precio_proxima_semana(df_historico, p) ==
    IF df_historico = <<>>
    THEN [df_prod |-> <<>>, resultado |-> PrediccionInicial]
    ELSE
    LET filtrado == FiltrarProducto(df_historico, p)
    IN  IF Len(filtrado) < MinOperacionesPrediccion
        THEN [df_prod |-> filtrado, resultado |-> PrediccionInicial]
        ELSE
        LET ordenado == sort_values(filtrado)
            ultimos_precios ==
                Ultimos(Columna(ordenado, "precio_compra"), VentanaPrecios)
            precio_pred ==
                np_average(ultimos_precios, Pesos(Len(ultimos_precios)))
            tendencia == Tendencia(ultimos_precios)
            desviacion == np_std(ultimos_precios)
        IN  [df_prod |-> ordenado,
             resultado |->
               [precio_estimado |-> precio_pred,
                confianza |-> Confianza(precio_pred, desviacion),
                rango_min |-> RangoMin(precio_pred, desviacion),
                rango_max |-> RangoMax(precio_pred, desviacion),
                tendencia |-> tendencia,
                sugerencia |->
                    Sugerencia(tendencia, DiferenciaPct(ultimos_precios)),
                ultimo_precio |->
                    Entero(ultimos_precios[Len(ultimos_precios)])]]

----------------------------------------------------------------------------
(* analizar_mejor_dia_compra *)

\* datos['count'] >= 2
MinOperacionesPorDia == 2

\* Python's None; no weekday carries this name
None == "None"

AnalisisDiasInicial ==
    [mejor_dia |-> None, precio_promedio |-> <<>>, sugerencia |-> <<"">>]

\* groupby('dia_semana') yields its groups in the sorted order of the keys
dias_es_sin_traducir(dia) == dia

DiasEnOrden ==
    <<"Friday", "Monday", "Saturday", "Sunday", "Thursday", "Tuesday",
      "Wednesday">>

dias_es(dia) ==
    CASE dia = "Monday" -> "Lunes"
      [] dia = "Tuesday" -> "Martes"
      [] dia = "Wednesday" -> "Miércoles"
      [] dia = "Thursday" -> "Jueves"
      [] dia = "Friday" -> "Viernes"
      [] dia = "Saturday" -> "Sábado"
      [] dia = "Sunday" -> "Domingo"
      [] OTHER -> dia

\* the precio_compra of the rows of s that fall on weekday dia
PreciosDelDia(s, dia) ==
    Columna(SelectSeq(s, LAMBDA r : day_name(r.fecha) = dia), "precio_compra")

\* df_prod['dia_semana'] = df_prod['fecha'].dt.day_name(), then
\* groupby('dia_semana')['precio_compra'].agg(['mean', 'count']), in key order
precios_por_dia(s) ==
    LET dia_semana == <<>> \o [i \in 1..Len(s) |-> day_name(s[i].fecha)]
        filas(dia) == SelectSeq([i \in 1..Len(s) |-> i],
                                LAMBDA i : dia_semana[i] = dia)
        grupo(dia) ==
            LET precios == [j \in 1..Len(filas(dia)) |->
                               s[filas(dia)[j]].precio_compra]
            IN  [dia |-> dia, mean |-> Media(precios), count |-> Len(precios)]
        presentes == SelectSeq(DiasEnOrden,
                               LAMBDA dia : \E i \in 1..Len(s) :
                                                dia_semana[i] = dia)
    IN  [i \in 1..Len(presentes) |-> grupo(presentes[i])]

dias_validos_desde_uno(por_dia) == SelectSeq(por_dia, LAMBDA g : g.count >= 1)

\* {dia: datos for dia, datos in precios_por_dia.items() if datos['count'] >= 2}
dias_validos(por_dia) ==
    SelectSeq(por_dia, LAMBDA g : g.count >= MinOperacionesPorDia)

\* min(items, key=mean): the first item of least mean
MinPorMedia(items) ==
    LET i == CHOOSE i \in 1..Len(items) :
                 /\ \A j \in 1..Len(items) : RLe(items[i].mean, items[j].mean)
                 /\ \A j \in 1..(i - 1) : RLt(items[i].mean, items[j].mean)
    IN  items[i]

peor_dia_minimo(items) == MinPorMedia(items)

\* max(items, key=mean): the first item of greatest mean
MaxPorMedia(items) ==
    LET i == CHOOSE i \in 1..Len(items) :
                 /\ \A j \in 1..Len(items) : RLe(items[j].mean, items[i].mean)
                 /\ \A j \in 1..(i - 1) : RLt(items[j].mean, items[i].mean)
    IN  items[i]

ZeroDivisionError == [excepcion |-> "ZeroDivisionError"]

\* format(x, '.0f') of a number >= 0: the nearest integer, a half to the even
Redondear(r) ==
    LET q == r.num \div r.den
        resto == r.num % r.den
    IN  IF 2 * resto < r.den THEN q
        ELSE IF 2 * resto > r.den THEN q + 1
        ELSE IF q % 2 = 0 THEN q ELSE q + 1

Digitos == <<"0", "1", "2", "3", "4", "5", "6", "7", "8", "9">>

Digito(d) == Digitos[d + 1]

RECURSIVE Decimal(_)
Decimal(n) == IF n < 10 THEN Digito(n) ELSE Decimal(n \div 10) \o Digito(n % 10)

\* the ',' of the format: groups of three digits
RECURSIVE ConComas(_)
ConComas(n) ==
    IF n < 1000 THEN Decimal(n)
    ELSE ConComas(n \div 1000) \o "," \o Digito((n % 1000) \div 100)
         \o Digito((n % 100) \div 10) \o Digito(n % 10)

\* f"${x:,.0f}/kg"
FormatoMoneda(r) == "$" \o ConComas(Redondear(r)) \o "/kg"


analizar_mejor_dia_compra(df_historico, p) ==
    IF df_historico = <<>>
    THEN [df_prod |-> <<>>, resultado |-> AnalisisDiasInicial]
    ELSE
    LET filtrado == FiltrarProducto(df_historico, p)
        validos == dias_validos(precios_por_dia(filtrado))
    IN  IF filtrado = <<>> \/ validos = <<>>
        THEN [df_prod |-> filtrado, resultado |-> AnalisisDiasInicial]
        ELSE
        LET mejor_dia == MinPorMedia(validos)
            peor_dia == MaxPorMedia(validos)
            precio_promedio ==
                [d \in {dias_es(validos[i].dia) : i \in 1..Len(validos)} |->
                    (CHOOSE g \in {validos[i] : i \in 1..Len(validos)} :
                        dias_es(g.dia) = d).mean]
            ahorro_potencial == RSub(peor_dia.mean, mejor_dia.mean)
        IN  \* pct_ahorro divides two Python floats
            IF peor_dia.mean.num = 0
            THEN [df_prod |-> filtrado, resultado |-> ZeroDivisionError]
            ELSE
            [df_prod |-> filtrado,
             resultado |->
               [mejor_dia |-> dias_es(mejor_dia.dia),
                precio_promedio |-> precio_promedio,
                sugerencia |->
                    <<dias_es(mejor_dia.dia), FormatoMoneda(mejor_dia.mean),
                      FormatoMoneda(ahorro_potencial),
                      RMul(RDiv(ahorro_potencial, peor_dia.mean), Entero(100)),
                      dias_es(peor_dia.dia)>>,
                ahorro_potencial |-> ahorro_potencial]]

----------------------------------------------------------------------------
(* detectar_patrones_estacionales *)

\* len(df_prod) < 12
MinOperacionesPatron == 12
\* precios_por_mes['count'] >= 2
MinOperacionesPorMes == 2
\* len(precios_por_mes) < 3
MinMesesPatron == 3

PatronesInicial ==
    [meses_caros |-> <<>>, meses_baratos |-> <<>>,
     patron_detectado |-> FALSE, descripcion |-> <<"">>]

\* a Python list: entry m of it is element m + 1 of this sequence
meses_nombres ==
    <<"", "Enero", "Febrero", "Marzo", "Abril", "Mayo", "Junio", "Julio",
      "Agosto", "Septiembre", "Octubre", "Noviembre", "Diciembre">>

PreciosDelMes(s, m) ==
    Columna(SelectSeq(s, LAMBDA r : r.fecha.mes = m), "precio_compra")

\* groupby('mes')['precio_compra'].agg(['mean', 'count']), in month order
precios_por_mes(s) ==
    LET grupo(m) == [mes |-> m, mean |-> Media(PreciosDelMes(s, m)),
                     count |-> Len(PreciosDelMes(s, m))]
        presentes == SelectSeq([m \in 1..12 |-> m],
                               LAMBDA m : PreciosDelMes(s, m) # <<>>)
    IN  [i \in 1..Len(presentes) |-> grupo(presentes[i])]

MesesValidos_desde_uno(por_mes) == SelectSeq(por_mes, LAMBDA g : g.count >= 1)

\* precios_por_mes[precios_por_mes['count'] >= 2]
MesesValidos(por_mes) ==
    SelectSeq(por_mes, LAMBDA g : g.count >= MinOperacionesPorMes)

\* precios_por_mes['mean'].mean()
PromedioGeneral(por_mes) ==
    RDiv(SumaRat([i \in 1..Len(por_mes) |-> por_mes[i].mean]),
         Entero(Len(por_mes)))

\* mean > promedio_general * 1.15
MesesCaros(por_mes) ==
    LET promedio_general == PromedioGeneral(por_mes)
    IN  SelectSeq(por_mes,
                  LAMBDA g : MayorQueProducto(g.mean, promedio_general,
                                              Literal115))

\* mean < promedio_general * 0.85
MesesBaratos(por_mes) ==
    LET promedio_general == PromedioGeneral(por_mes)
    IN  SelectSeq(por_mes,
                  LAMBDA g : MenorQueProducto(g.mean, promedio_general,
                                              Literal085))

NombresDeMeses_sin_hueco(grupos) ==
    [i \in 1..Len(grupos) |-> meses_nombres[grupos[i].mes]]

\* [meses_nombres[m] for m in grupos.index]
NombresDeMeses(grupos) ==
    [i \in 1..Len(grupos) |-> meses_nombres[grupos[i].mes + 1]]

SuficientesOperaciones_sin_minimo(filtrado) == TRUE

\* not (len(df_prod) < 12)
SuficientesOperaciones(filtrado) == Len(filtrado) >= MinOperacionesPatron

\* not (len(precios_por_mes) < 3)
SuficientesMeses(validos) == Len(validos) >= MinMesesPatron

detectar_patrones_estacionales(df_historico, p) ==
    IF df_historico = <<>>
    THEN [df_prod |-> <<>>, resultado |-> PatronesInicial]
    ELSE
    LET filtrado == FiltrarProducto(df_historico, p)
        validos == MesesValidos(precios_por_mes(filtrado))
    IN  IF ~SuficientesOperaciones(filtrado) \/ ~SuficientesMeses(validos)
        THEN [df_prod |-> filtrado, resultado |-> PatronesInicial]
        ELSE
        LET caros == NombresDeMeses(MesesCaros(validos))
            baratos == NombresDeMeses(MesesBaratos(validos))
        IN  [df_prod |-> filtrado,
             resultado |->
               IF caros # <<>> \/ baratos # <<>>
               THEN [meses_caros |-> caros, meses_baratos |-> baratos,
                     patron_detectado |-> TRUE,
                     descripcion |-> <<"Patrones detectados", caros, baratos>>]
               ELSE PatronesInicial]

----------------------------------------------------------------------------
(* analizar_precios_historicos *)

AnalisisInicial ==
    [por_semana |-> <<>>, promedio_2025 |-> Entero(0),
     promedio_2026 |-> Entero(0), diferencia_promedio |-> Entero(0),
     alertas |-> <<>>]

\* the mean price of the rows in bucket (mes, semana), 0 when there are none
PrecioCubeta2025(s, mes, semana) ==
    LET datos == SelectSeq(s, LAMBDA r : r.fecha.mes = mes
                               /\ obtener_semana_del_mes(r.fecha) = semana)
    IN  IF datos = <<>> THEN Entero(0)
        ELSE Media(Columna(datos, "precio_compra"))

PrecioCubeta2026(s, mes, semana) ==
    LET datos == SelectSeq(s, LAMBDA r : r.Fecha.mes = mes
                               /\ obtener_semana_del_mes(r.Fecha) = semana)
    IN  IF datos = <<>> THEN Entero(0)
        ELSE Media(Columna(datos, "Precio_Compra"))

RegistroCubeta_fraccion(precio_2025, precio_2026, mes, semana) ==
    [mes |-> mes, semana |-> semana,
     precio_2025 |-> precio_2025, precio_2026 |-> precio_2026,
     diferencia |-> RSub(precio_2026, precio_2025),
     porcentaje |->
        IF RLt(Entero(0), precio_2025)
        THEN RDiv(RSub(precio_2026, precio_2025), precio_2025)
        ELSE Entero(0)]

\* the record of one bucket; key f"M{mes}_S{semana}" is the pair <<mes, semana>>
RegistroCubeta(precio_2025, precio_2026, mes, semana) ==
    [mes |-> mes, semana |-> semana,
     precio_2025 |-> precio_2025, precio_2026 |-> precio_2026,
     diferencia |-> RSub(precio_2026, precio_2025),
     porcentaje |->
        IF RLt(Entero(0), precio_2025)
        THEN RMul(RDiv(RSub(precio_2026, precio_2025), precio_2025),
                  Entero(100))
        ELSE Entero(0)]

\* precio_2025 > 0 or precio_2026 > 0
CubetaEmitida(precio_2025, precio_2026) ==
    RLt(Entero(0), precio_2025) \/ RLt(Entero(0), precio_2026)

Alertas(promedio_2025, promedio_2026) ==
    IF RLt(Entero(0), promedio_2025) /\ RLt(Entero(0), promedio_2026)
    THEN LET pct_cambio ==
                 RMul(RDiv(RSub(promedio_2026, promedio_2025), promedio_2025),
                      Entero(100))
         IN  IF RLt(Entero(30), pct_cambio)
                 THEN <<[tipo |-> "warning", pct_cambio |-> pct_cambio]>>
             ELSE IF RLt(pct_cambio, Entero(-20))
                 THEN <<[tipo |-> "success", pct_cambio |-> pct_cambio]>>
             ELSE IF RLt(pct_cambio, Entero(10)) /\ RLt(Entero(-10), pct_cambio)
                 THEN <<[tipo |-> "info", pct_cambio |-> pct_cambio]>>
             ELSE <<>>
    ELSE <<>>

\* the function's df_2025_prod, df_2026_prod and its return value
analizar_precios_historicos(d2025, d2026, p) ==
    LET prod_2025 == FiltrarProducto(d2025, p)
        prod_2026 == FiltrarProducto2026(d2026, p)
    IN  IF prod_2025 = <<>> /\ prod_2026 = <<>>
        THEN [df_prod |-> prod_2025, df_2026_prod |-> prod_2026,
              resultado |-> AnalisisInicial]
        ELSE
        LET p25(k) == PrecioCubeta2025(prod_2025, k[1], k[2])
            p26(k) == PrecioCubeta2026(prod_2026, k[1], k[2])
            \* for mes in range(1, 13): for semana in range(1, 6): a bucket
            \* with no row in either period has both prices 0 and no record
            con_filas ==
                {<<prod_2025[i].fecha.mes,
                   obtener_semana_del_mes(prod_2025[i].fecha)>> :
                       i \in 1..Len(prod_2025)}
                \cup {<<prod_2026[i].Fecha.mes,
                        obtener_semana_del_mes(prod_2026[i].Fecha)>> :
                            i \in 1..Len(prod_2026)}
            claves == {k \in ((1..12) \X (1..5)) \cap con_filas :
                          CubetaEmitida(p25(k), p26(k))}
            promedio_2025 ==
                IF prod_2025 = <<>> THEN Entero(0)
                ELSE Media(Columna(prod_2025, "precio_compra"))
            promedio_2026 ==
                IF prod_2026 = <<>> THEN Entero(0)
                ELSE Media(Columna(prod_2026, "Precio_Compra"))
        IN  [df_prod |-> prod_2025, df_2026_prod |-> prod_2026,
             resultado |->
               [por_semana |->
                    [k \in claves |-> RegistroCubeta(p25(k), p26(k), k[1], k[2])],
                promedio_2025 |-> promedio_2025,
                promedio_2026 |-> promedio_2026,
                diferencia_promedio |-> RSub(promedio_2026, promedio_2025),
                alertas |-> Alertas(promedio_2025, promedio_2026)]]

----------------------------------------------------------------------------
(* Validation and profit of a commercial operation.  Amounts are whole      *)
(* pesos and whole kilograms, which float64 holds exactly.                  *)

LimiteCantidad == 1000000

validar_cantidad_sin_limite(valor, nombre_campo, permitir_cero) ==
    IF valor \notin Int
        THEN <<FALSE, <<nombre_campo, "no puede estar vacío">>>>
    ELSE IF ~permitir_cero /\ valor <= 0
        THEN <<FALSE, <<nombre_campo, "debe ser mayor a 0">>>>
    ELSE IF permitir_cero /\ valor < 0
        THEN <<FALSE, <<nombre_campo, "no puede ser negativo">>>>
    ELSE <<TRUE, "">>

\* (es_valido, mensaje)
validar_cantidad(valor, nombre_campo, permitir_cero) ==
    IF valor \notin Int
        THEN <<FALSE, <<nombre_campo, "no puede estar vacío">>>>
    ELSE IF ~permitir_cero /\ valor <= 0
        THEN <<FALSE, <<nombre_campo, "debe ser mayor a 0">>>>
    ELSE IF permitir_cero /\ valor < 0
        THEN <<FALSE, <<nombre_campo, "no puede ser negativo">>>>
    ELSE IF valor > LimiteCantidad
        THEN <<FALSE, <<nombre_campo, "excede el límite permitido">>>>
    ELSE <<TRUE, "">>

calcular_utilidad_sin_deducciones(kg_venta, precio_venta, kg_compra, precio_compra, viaticos, fletes, otros_gastos, retenciones, descuentos) ==
    kg_venta * precio_venta
        - (kg_compra * precio_compra + viaticos + fletes + otros_gastos)

calcular_utilidad_neta(kg_venta, precio_venta, kg_compra, precio_compra, viaticos, fletes, otros_gastos, retenciones, descuentos) ==
    LET costo_bruto == kg_compra * precio_compra
        costo_neto == costo_bruto + viaticos + fletes + otros_gastos
        ingreso_total == kg_venta * precio_venta
        utilidad_bruta == ingreso_total - costo_neto
        utilidad_neta == utilidad_bruta - retenciones - descuentos
    IN  utilidad_neta

calcular_utilidad_bruta(kg_venta, precio_venta, kg_compra, precio_compra, viaticos, fletes, otros_gastos) ==
    LET costo_neto == (kg_compra * precio_compra) + viaticos + fletes
                          + otros_gastos
        ingreso_total == kg_venta * precio_venta
    IN  ingreso_total - costo_neto

\* the list validaciones: (valor, nombre, permitir_cero)
Validaciones(kg_compra, precio_compra, kg_venta, precio_venta, viaticos, fletes, otros_gastos, retenciones, descuentos) ==
    <<<<kg_compra, "Kg Compra", FALSE>>,
      <<precio_compra, "Precio Compra", FALSE>>,
      <<kg_venta, "Kg Venta", FALSE>>,
      <<precio_venta, "Precio Venta", FALSE>>,
      <<viaticos, "Viáticos", TRUE>>,
      <<fletes, "Fletes", TRUE>>,
      <<otros_gastos, "Otros Gastos", TRUE>>,
      <<retenciones, "Retenciones", TRUE>>,
      <<descuentos, "Descuentos", TRUE>>>>

RECURSIVE Errores(_)
\* for validacion in validaciones: errores.append(mensaje) if not es_valido
Errores(validaciones) ==
    IF validaciones = <<>> THEN <<>>
    ELSE LET v == Head(validaciones)
             r == validar_cantidad(v[1], v[2], v[3])
         IN  (IF r[1] THEN <<>> ELSE <<r[2]>>) \o Errores(Tail(validaciones))

\* (es_valido, advertencias, errores)
validar_operacion_comercial(kg_compra, precio_compra, kg_venta, precio_venta, viaticos, fletes, otros_gastos, retenciones, descuentos) ==
    LET errores ==
            Errores(Validaciones(kg_compra, precio_compra, kg_venta,
                                 precio_venta, viaticos, fletes, otros_gastos,
                                 retenciones, descuentos))
        utilidad_neta ==
            calcular_utilidad_neta(kg_venta, precio_venta, kg_compra,
                                   precio_compra, viaticos, fletes,
                                   otros_gastos, retenciones, descuentos)
        advertencias ==
            (IF MayorQueProducto(Entero(kg_venta), Entero(kg_compra),
                                 Literal11)
             THEN <<"Vendes más de lo que compraste">> ELSE <<>>)
            \o (IF MenorQueProducto(Entero(precio_venta),
                                    Entero(precio_compra), Literal09)
                THEN <<"Pérdida en precio">> ELSE <<>>)
            \o (IF utilidad_neta < 0
                THEN <<"Utilidad neta negativa">> ELSE <<>>)
    IN  IF errores # <<>> THEN <<FALSE, <<>>, errores>>
        ELSE <<TRUE, advertencias, errores>>

----------------------------------------------------------------------------
(* Inputs *)

Platano == "Plátano"
Productos == {Platano, "Banano"}

\* 0 is what the loaders write for a missing price (fillna(0.0), limpiar_moneda)
Precios == {0, 90, 100, 110}

Fecha(a, m, d) == [anio |-> a, mes |-> m, dia |-> d]

Fila(f, p, x) == [fecha |-> f, producto |-> p, precio_compra |-> x]
Fila2026(f, p, x) == [Fecha |-> f, Producto |-> p, Precio_Compra |-> x]

SecuenciasHasta(S, n) == UNION {[1..k -> S] : k \in 0..n}

\* a Monday and the Tuesday after it
Lunes6 == Fecha(2025, 1, 6)
Martes7 == Fecha(2025, 1, 7)

\* Monday rows at every price, Tuesday rows at two prices, a row of another
\* product
FilasCortas ==
    {Fila(Lunes6, Platano, x) : x \in Precios}
    \cup {Fila(Martes7, Platano, x) : x \in {100, 200}}
    \cup {Fila(Lunes6, "Banano", 100)}

\* general series: every sequence of at most MaxFilas rows
EntradasCortas == SecuenciasHasta(FilasCortas, MaxFilas)

MesesModelo == 1..3
PreciosMes == {100, 200}

RECURSIVE Concatenar(_)
Concatenar(ss) == IF ss = <<>> THEN <<>> ELSE Head(ss) \o Concatenar(Tail(ss))

\* n rows of month m at price x, alternating between 2025 and 2026
BloqueMes(m, n, x) ==
    [i \in 1..n |-> Fila(Fecha(2025 + (i % 2), m, 1 + ((3 * i) % 28)),
                         Platano, x)]

\* series long enough for the seasonal detector: per month a number of rows
\* and a price, with or without two rows of another product in front
EntradasEstacionales ==
    {(IF otro THEN <<Fila(Fecha(2025, 1, 6), "Banano", 200),
                     Fila(Fecha(2025, 2, 3), "Banano", 200)>> ELSE <<>>)
     \o Concatenar([m \in MesesModelo |-> BloqueMes(m, n[m], x[m])]) :
        n \in [MesesModelo -> 0..MaxPorMes], x \in [MesesModelo -> PreciosMes],
        otro \in BOOLEAN}

\* series whose monthly means stand in the ratios 0.85 : 1 : 1.15
PreciosUmbral == {85, 100, 115}
EntradasUmbral ==
    {Concatenar([m \in MesesModelo |->
                    BloqueMes(m, MinOperacionesPatron \div 3, x[m])]) :
        x \in [MesesModelo -> PreciosUmbral]}

FilasHist2025 ==
    {Fila(Fecha(2025, 1, d), p, x) : d \in {6, 9}, p \in Productos,
                                     x \in {0, 100}}
FilasHist2026 ==
    {Fila2026(Fecha(2026, 1, d), p, x) : d \in {5, 9}, p \in Productos,
                                         x \in {0, 200}}

\* two rows of one period at the ends of the weeks of a month, against at
\* most one row of the other period
FilasCubeta2025 ==
    {Fila(Fecha(2025, 1, d), Platano, x) : d \in {1, 7, 8, 29},
                                           x \in {0, 100, 200}}
FilasCubeta2026 ==
    {Fila2026(Fecha(2026, 1, d), Platano, x) : d \in {7, 31}, x \in {0, 300}}

----------------------------------------------------------------------------
(* The state machine: an input is given, and each call of a function sets *)
(* the series it worked on and the value it returned                      *)

\* the ledger before any write, and the price functions not called
VentasSinUso == ventas_2026 = <<>> /\ secuencia_id = 0
SesionesSinUso ==
    /\ gastos_fijos_2026 = <<>> /\ configuracion_caja = <<>>
    /\ notas_precios = <<>> /\ metas_mensuales = <<>>
    /\ cache = <<>> /\ version = <<>> /\ sesion = <<>>
    /\ ultima_meta = <<>>
AccesoSinUso == session_state = <<>> /\ secrets = <<>> /\ ejecucion = <<>>
CarteraSinUso ==
    /\ df_ventas = <<>> /\ hoy = <<>>
    /\ alertas_criticas = <<>> /\ colores = <<>>
CargaSinUso ==
    /\ registros = <<>> /\ indice = 0 /\ total_insertados = 0
    /\ errores_carga = 0 /\ intentos = <<>> /\ ventas_2025 = <<>>
    /\ etapa = "sin uso"
RestoSinUso ==
    SesionesSinUso /\ AccesoSinUso /\ CarteraSinUso /\ CargaSinUso
AppSinUso == VentasSinUso /\ RestoSinUso
PreciosSinUso ==
    /\ df = <<>> /\ df_2026 = <<>> /\ producto = Platano
    /\ llamada = "ninguna"
    /\ df_prod = <<>> /\ df_2026_prod = <<>> /\ resultado = <<>>

ArgumentoConColumnas(d, columnas) ==
    [i \in 1..Len(d) |-> [c \in columnas |-> "asignada"] @@ d[i]]

\* the caller's frame after a call that assigns the named columns: the
\* function assigns them on df_prod, a .copy() of the selected rows, and
\* sort_values returns a new frame
ArgumentoTrasLlamada(d, columnas) == d

Init ==
    /\ \/ df \in EntradasCortas /\ df_2026 = <<>>
       \/ df \in EntradasEstacionales /\ df_2026 = <<>>
       \/ df \in EntradasUmbral /\ df_2026 = <<>>
       \/ /\ df \in SecuenciasHasta(FilasHist2025, MaxFilasHist)
          /\ df_2026 \in SecuenciasHasta(FilasHist2026, MaxFilasHist)
       \/ /\ df \in [1..2 -> FilasCubeta2025]
          /\ df_2026 \in SecuenciasHasta(FilasCubeta2026, 1)
    /\ producto = Platano
    /\ llamada = "ninguna"
    /\ df_prod = <<>>
    /\ df_2026_prod = <<>>
    /\ resultado = <<>>
    /\ AppSinUso

PredecirPrecio ==
    LET r == predecir_precio_proxima_semana(df, producto)
    IN  /\ llamada = "ninguna"
        /\ llamada' = "predecir_precio_proxima_semana"
        /\ df_prod' = r.df_prod
        /\ df_2026_prod' = <<>>
        /\ resultado' = r.resultado
        /\ df' = ArgumentoTrasLlamada(df, {})
        /\ UNCHANGED <<df_2026, producto>>
        /\ UNCHANGED app_vars

AnalizarMejorDia ==
    LET r == analizar_mejor_dia_compra(df, producto)
    IN  /\ llamada = "ninguna"
        /\ llamada' = "analizar_mejor_dia_compra"
        /\ df_prod' = r.df_prod
        /\ df_2026_prod' = <<>>
        /\ resultado' = r.resultado
        /\ df' = ArgumentoTrasLlamada(df, {"dia_semana"})
        /\ UNCHANGED <<df_2026, producto>>
        /\ UNCHANGED app_vars

DetectarPatrones ==
    LET r == detectar_patrones_estacionales(df, producto)
    IN  /\ llamada = "ninguna"
        /\ llamada' = "detectar_patrones_estacionales"
        /\ df_prod' = r.df_prod
        /\ df_2026_prod' = <<>>
        /\ resultado' = r.resultado
        /\ df' = ArgumentoTrasLlamada(df, {"mes"})
        /\ UNCHANGED <<df_2026, producto>>
        /\ UNCHANGED app_vars

AnalizarHistoricos ==
    LET r == analizar_precios_historicos(df, df_2026, producto)
    IN  /\ llamada = "ninguna"
        /\ llamada' = "analizar_precios_historicos"
        /\ df_prod' = r.df_prod
        /\ df_2026_prod' = r.df_2026_prod
        /\ resultado' = r.resultado
        /\ df' = ArgumentoTrasLlamada(df, {"Semana", "Mes"})
        /\ df_2026' = ArgumentoTrasLlamada(df_2026, {"Semana", "Mes"})
        /\ UNCHANGED producto
        /\ UNCHANGED app_vars

Next ==
    \/ PredecirPrecio
    \/ AnalizarMejorDia
    \/ DetectarPatrones
    \/ AnalizarHistoricos

Spec == Init /\ [][Next]_vars

----------------------------------------------------------------------------
(* The forms that write ventas_2026: 'Guardar Operación' of the tab Nueva   *)
(* Operación, 'Guardar' and 'Borrar' of the tab Cartera.  A call of the     *)
(* database either takes effect or raises.                                  *)

\* rows ever inserted into ventas_2026
MaxVentas == 2

CamposNumericos ==
    {"kg_compra", "precio_compra", "viaticos", "fletes", "otros_gastos",
     "kg_venta", "precio_venta", "retenciones", "descuentos"}

OperacionBase ==
    [kg_compra |-> 10, precio_compra |-> 100, viaticos |-> 0, fletes |-> 0,
     otros_gastos |-> 0, kg_venta |-> 10, precio_venta |-> 120,
     retenciones |-> 0, descuentos |-> 0]

\* values entered in one field, the others as in OperacionBase
ValoresDeCampo(campo) ==
    CASE campo = "kg_compra" -> {0, LimiteCantidad, LimiteCantidad + 1}
      [] campo = "precio_compra" -> {0, LimiteCantidad + 1}
      [] campo = "kg_venta" -> {0, 12, LimiteCantidad + 1}
      [] campo = "precio_venta" -> {0, 80, LimiteCantidad + 1}
      [] campo = "viaticos" -> {LimiteCantidad, LimiteCantidad + 1}
      [] campo = "retenciones" -> {50, LimiteCantidad + 1}
      [] campo = "descuentos" -> {30, LimiteCantidad + 1}
      [] OTHER -> {LimiteCantidad + 1}

\* the number_input widgets of add_viaje have min_value=0.0
FormulariosNuevaOp ==
    {OperacionBase}
    \cup UNION {{[OperacionBase EXCEPT ![c] = v] : v \in ValoresDeCampo(c)} :
                   c \in CamposNumericos}

\* the number_input widgets of edit_full have no minimum
FormulariosEdicion ==
    FormulariosNuevaOp
    \cup {[OperacionBase EXCEPT ![c] = -1] : c \in CamposNumericos}

Validar(f) ==
    validar_operacion_comercial(f.kg_compra, f.precio_compra, f.kg_venta,
                                f.precio_venta, f.viaticos, f.fletes,
                                f.otros_gastos, f.retenciones, f.descuentos)

UtilidadNeta(f) ==
    calcular_utilidad_neta(f.kg_venta, f.precio_venta, f.kg_compra,
                           f.precio_compra, f.viaticos, f.fletes,
                           f.otros_gastos, f.retenciones, f.descuentos)

\* the dict datos / acts of a form
Datos(f, prov, cli, est, utilidad) ==
    [proveedor |-> prov, cliente |-> cli, kg_compra |-> f.kg_compra,
     precio_compra |-> f.precio_compra, viaticos |-> f.viaticos,
     fletes |-> f.fletes, otros_gastos |-> f.otros_gastos,
     kg_venta |-> f.kg_venta, precio_venta |-> f.precio_venta,
     retenciones |-> f.retenciones, descuentos |-> f.descuentos,
     utilidad |-> utilidad, estado_pago |-> est]

ConId(datos, id) == [c \in {"id"} |-> id] @@ datos

\* table.update(acts).eq("id", id)
Actualizar(tabla, acts, id) ==
    [i \in 1..Len(tabla) |->
        IF tabla[i].id = id THEN ConId(acts, id) ELSE tabla[i]]

\* table.delete().eq("id", id)
Eliminar(tabla, id) == SelectSeq(tabla, LAMBDA r : r.id # id)

VentasInit == PreciosSinUso /\ VentasSinUso /\ RestoSinUso

\* 'Guardar Operación': the form add_viaje
GuardarOperacion ==
    \E f \in FormulariosNuevaOp :
        LET un == UtilidadNeta(f)
            es_val == Validar(f)[1]
        IN  \E prov_f \in {"", "Finca"}, cli_f \in {"", "Fogón del Mar"},
               se_ejecuta \in BOOLEAN :
                /\ secuencia_id < MaxVentas
                /\ IF es_val /\ prov_f # "" /\ cli_f # "" /\ se_ejecuta
                   THEN /\ ventas_2026' =
                              Append(ventas_2026,
                                     ConId(Datos(f, prov_f, cli_f, "Pagado",
                                                 un),
                                           secuencia_id + 1))
                        /\ secuencia_id' = secuencia_id + 1
                   ELSE UNCHANGED ventas_vars
                /\ UNCHANGED <<precios_vars, resto_vars>>

\* 'Guardar' of the form edit_full on the selected row
GuardarEdicion ==
    \E f \in FormulariosEdicion :
        LET es_val == Validar(f)[1]
            nu == UtilidadNeta(f)
        IN  \E n \in 1..Len(ventas_2026), se_ejecuta \in BOOLEAN :
                \E e_prov \in {"", ventas_2026[n].proveedor} :
                    LET fila == ventas_2026[n]
                        acts == Datos(f, e_prov, fila.cliente,
                                      fila.estado_pago, nu)
                    IN  /\ IF es_val /\ se_ejecuta
                           THEN ventas_2026' =
                                    Actualizar(ventas_2026, acts, fila.id)
                           ELSE UNCHANGED ventas_2026
                        /\ UNCHANGED <<secuencia_id, precios_vars, resto_vars>>

\* 'Borrar' on the selected row
Borrar ==
    \E n \in 1..Len(ventas_2026), se_ejecuta \in BOOLEAN :
        /\ IF se_ejecuta
           THEN ventas_2026' = Eliminar(ventas_2026, ventas_2026[n].id)
           ELSE UNCHANGED ventas_2026
        /\ UNCHANGED <<secuencia_id, precios_vars, resto_vars>>

VentasNext == GuardarOperacion \/ GuardarEdicion \/ Borrar

SpecVentas == VentasInit /\ [][VentasNext]_vars

----------------------------------------------------------------------------
(* The browser sessions of the app: each runs the script from the top,    *)
(* they share the database and the st.cache_data store of the loaders.    *)
(* Each loader has a store of its own and each table is read by one       *)
(* loader, so the ledger (cargar_datos) and the notes and goals           *)
(* (cargar_notas_precios, cargar_metas) are followed apart                *)

fuera_de_sesiones ==
    <<precios_vars, acceso_vars, cartera_vars, carga_vars>>

\* writes made in all by the two sessions
MaxEscrituras == 2

Sesiones == {"s1", "s2"}

\* the loaders followed: those that have a store in cache
Cargadores == DOMAIN cache

\* the tables of the three queries of cargar_datos
TablasDeCargarDatos ==
    {"ventas_2026", "gastos_fijos_2026", "configuracion_caja"}

\* the month of the form form_meta: the current one
MesDeLaMeta == [anio |-> 2026, mes |-> 1]

\* cargar_datos: each query in its own try, a failed one leaves its empty
\* default; the result holds the count of writes made before it was read
cargar_datos(falla) ==
    [df_ventas |-> IF "ventas_2026" \in falla THEN <<>> ELSE ventas_2026,
     df_gastos |->
         IF "gastos_fijos_2026" \in falla THEN <<>> ELSE gastos_fijos_2026,
     saldo_inicial |->
         IF "configuracion_caja" \in falla \/ configuracion_caja = <<>>
         THEN 0
         ELSE configuracion_caja[1].saldo_inicial,
     leido_en |-> version["cargar_datos"]]

cargar_notas_precios ==
    [df |-> notas_precios, leido_en |-> version["cargar_notas_precios"]]

cargar_metas == [df |-> metas_mensuales, leido_en |-> version["cargar_metas"]]

\* the body of a loader, run on a cache miss
Leer(cargador, falla) ==
    CASE cargador = "cargar_datos" -> cargar_datos(falla)
      [] cargador = "cargar_notas_precios" -> cargar_notas_precios
      [] OTHER -> cargar_metas

DeTipo(df_gastos, tipo) == SelectSeq(df_gastos, LAMBDA g : g.tipo = tipo)

\* the cash flow of the loaded frames
ingresos_caja(d) ==
    LET ventas_pagadas ==
            SelectSeq(d.df_ventas, LAMBDA r : r.estado_pago = "Pagado")
    IN  Suma([i \in 1..Len(ventas_pagadas) |->
                 ventas_pagadas[i].kg_venta * ventas_pagadas[i].precio_venta])
        + Suma(Columna(DeTipo(d.df_gastos, "Ingreso Extra"), "monto"))

egresos_caja(d) ==
    LET costo_bruto ==
            Suma([i \in 1..Len(d.df_ventas) |->
                     d.df_ventas[i].kg_compra * d.df_ventas[i].precio_compra])
    IN  costo_bruto + Suma(Columna(d.df_ventas, "viaticos"))
        + Suma(Columna(d.df_ventas, "fletes"))
        + Suma(Columna(d.df_ventas, "otros_gastos"))
        + Suma(Columna(DeTipo(d.df_gastos, "Gasto"), "monto"))
        + Suma(Columna(DeTipo(d.df_gastos, "Préstamo Salida"), "monto"))

flujo_acumulado(d) == ingresos_caja(d) - egresos_caja(d)

caja_sistema(d) == d.saldo_inicial + flujo_acumulado(d)

\* the script run of a session before its first line
SesionNueva(cargadores) ==
    [pc |-> "inicio", datos |-> [l \in cargadores |-> <<>>],
     por_guardar |-> {}, limpiar |-> "", propia |-> <<>>,
     ajustado |-> <<>>, existente |-> FALSE, meta_util |-> 0]

SesionesInit ==
    /\ PreciosSinUso /\ VentasSinUso /\ AccesoSinUso /\ CarteraSinUso
    /\ CargaSinUso
    /\ gastos_fijos_2026 = <<>>
    /\ configuracion_caja = <<[id |-> 1, saldo_inicial |-> 0]>>
    /\ notas_precios = <<>> /\ metas_mensuales = <<>>
    /\ cache = [l \in {"cargar_datos"} |-> <<>>]
    /\ version = [l \in {"cargar_datos"} |-> 0]
    /\ sesion = [s \in Sesiones |-> SesionNueva({"cargar_datos"})]
    /\ ultima_meta = <<>>

RECURSIVE TotalDe(_, _)
TotalDe(f, S) ==
    IF S = {}
    THEN 0
    ELSE LET x == CHOOSE y \in S : TRUE IN f[x] + TotalDe(f, S \ {x})

Escrituras == TotalDe(version, DOMAIN version)

bd_vars ==
    <<ventas_2026, secuencia_id, gastos_fijos_2026, configuracion_caja,
      notas_precios, metas_mensuales, version>>

\* the frames of cargar_datos that the run of s holds
DatosDe(s) == sesion[s].datos["cargar_datos"][1]

\* the session after a write whose execute() returned: the loader named
\* is cleared next
TrasEscribir(s, cargador) ==
    [sesion EXCEPT ![s] =
        [SesionNueva(Cargadores) EXCEPT
            !.pc = "escrito", !.limpiar = cargador,
            !.meta_util = sesion[s].meta_util,
            !.propia = <<[cargador |-> cargador,
                          version |-> version[cargador] + 1]>>]]

Escrita(cargador) == [version EXCEPT ![cargador] = @ + 1]

\* 'Actualizar Datos' in the sidebar, above the loaders: every loader is
\* cleared (cargar_datos_2025 too, whose table the app never writes)
ActualizarDatos(s) ==
    /\ sesion[s].pc = "inicio"
    /\ cache' = [l \in Cargadores |-> <<>>]
    /\ UNCHANGED <<bd_vars, sesion, ultima_meta, fuera_de_sesiones>>

\* the loaders are called: a hit returns the stored value, a miss runs
\* the body, whose queries read the tables
IniciarCarga(s) ==
    /\ sesion[s].pc = "inicio"
    /\ \E falla \in SUBSET TablasDeCargarDatos :
           sesion' =
               [sesion EXCEPT ![s] =
                   [@ EXCEPT !.pc = "cargando",
                             !.meta_util = 0,
                             !.datos =
                                 [l \in Cargadores |->
                                     IF cache[l] = <<>>
                                     THEN <<Leer(l, falla)>>
                                     ELSE cache[l]],
                             !.por_guardar =
                                 {l \in Cargadores : cache[l] = <<>>}]]
    /\ UNCHANGED <<bd_vars, cache, ultima_meta, fuera_de_sesiones>>

\* the bodies return: st.cache_data stores their values and the script
\* goes on to render with them
TerminarCarga(s) ==
    /\ sesion[s].pc = "cargando"
    /\ cache' = [l \in Cargadores |->
                    IF l \in sesion[s].por_guardar
                    THEN sesion[s].datos[l]
                    ELSE cache[l]]
    /\ sesion' = [sesion EXCEPT ![s] =
                     [@ EXCEPT !.pc = "vista", !.por_guardar = {}]]
    /\ UNCHANGED <<bd_vars, ultima_meta, fuera_de_sesiones>>

\* a widget that writes nothing is used: the script runs again
Interactuar(s) ==
    /\ sesion[s].pc = "vista"
    /\ sesion' = [sesion EXCEPT ![s] = SesionNueva(Cargadores)]
    /\ UNCHANGED <<bd_vars, cache, ultima_meta, fuera_de_sesiones>>

\* a stored value older than CACHE_TTL_SECONDS is dropped
Caducar ==
    \E l \in Cargadores :
        /\ cache[l] # <<>>
        /\ cache' = [cache EXCEPT ![l] = <<>>]
        /\ UNCHANGED <<bd_vars, sesion, ultima_meta, fuera_de_sesiones>>

\* a handler whose execute() raised: the except branch shows the error
\* and the run goes on
NoEscribe == UNCHANGED <<bd_vars, cache, sesion, ultima_meta, fuera_de_sesiones>>

\* 'Guardar Operación' up to the return of insert(datos).execute()
InsertarVenta(s) ==
    /\ sesion[s].pc = "vista" /\ Escrituras < MaxEscrituras
    /\ Validar(OperacionBase)[1]
    /\ \E est \in {"Pagado", "Pendiente"}, se_ejecuta \in BOOLEAN :
           IF se_ejecuta
           THEN /\ ventas_2026' =
                       Append(ventas_2026,
                              ConId(Datos(OperacionBase, "Finca",
                                          "Fogón del Mar", est,
                                          UtilidadNeta(OperacionBase)),
                                    secuencia_id + 1))
                /\ secuencia_id' = secuencia_id + 1
                /\ version' = Escrita("cargar_datos")
                /\ sesion' = TrasEscribir(s, "cargar_datos")
                /\ UNCHANGED <<gastos_fijos_2026, configuracion_caja,
                               notas_precios, metas_mensuales, cache,
                               ultima_meta, fuera_de_sesiones>>
           ELSE NoEscribe

\* 'Guardar' of edit_full on a row of the frame shown, up to the return of
\* update(acts).eq("id", ...).execute()
EditarVenta(s) ==
    /\ sesion[s].pc = "vista" /\ Escrituras < MaxEscrituras
    /\ \E n \in 1..Len(DatosDe(s).df_ventas), se_ejecuta \in BOOLEAN :
           LET fila == DatosDe(s).df_ventas[n]
               f == [OperacionBase EXCEPT !.fletes = 100]
               acts == Datos(f, fila.proveedor, fila.cliente,
                             fila.estado_pago, UtilidadNeta(f))
           IN  /\ Validar(f)[1]
               /\ IF se_ejecuta
                  THEN /\ ventas_2026' =
                              Actualizar(ventas_2026, acts, fila.id)
                       /\ version' = Escrita("cargar_datos")
                       /\ sesion' = TrasEscribir(s, "cargar_datos")
                       /\ UNCHANGED <<secuencia_id, gastos_fijos_2026,
                                      configuracion_caja, notas_precios,
                                      metas_mensuales, cache, ultima_meta,
                                      fuera_de_sesiones>>
                  ELSE NoEscribe

\* 'Borrar' on a row of the frame shown, up to the return of
\* delete().eq("id", ...).execute()
BorrarVenta(s) ==
    /\ sesion[s].pc = "vista" /\ Escrituras < MaxEscrituras
    /\ \E n \in 1..Len(DatosDe(s).df_ventas), se_ejecuta \in BOOLEAN :
           IF se_ejecuta
           THEN /\ ventas_2026' =
                       Eliminar(ventas_2026, DatosDe(s).df_ventas[n].id)
                /\ version' = Escrita("cargar_datos")
                /\ sesion' = TrasEscribir(s, "cargar_datos")
                /\ UNCHANGED <<secuencia_id, gastos_fijos_2026,
                               configuracion_caja, notas_precios,
                               metas_mensuales, cache, ultima_meta,
                               fuera_de_sesiones>>
           ELSE NoEscribe

\* 'Registrar' of a movement with a concept and a positive amount, up to
\* the return of insert(...).execute()
InsertarGasto(s) ==
    /\ sesion[s].pc = "vista" /\ Escrituras < MaxEscrituras
    /\ \E tipo_db \in {"Gasto", "Préstamo Salida", "Ingreso Extra"},
          se_ejecuta \in BOOLEAN :
           IF se_ejecuta
           THEN /\ gastos_fijos_2026' =
                       Append(gastos_fijos_2026,
                              [id |-> secuencia_id + 1, concepto |-> "Nómina",
                               monto |-> 50, tipo |-> tipo_db])
                /\ secuencia_id' = secuencia_id + 1
                /\ version' = Escrita("cargar_datos")
                /\ sesion' = TrasEscribir(s, "cargar_datos")
                /\ UNCHANGED <<ventas_2026, configuracion_caja,
                               notas_precios, metas_mensuales, cache,
                               ultima_meta, fuera_de_sesiones>>
           ELSE NoEscribe

\* 'Eliminar' with the id typed in, up to the return of
\* delete().eq("id", id_borrar).execute()
BorrarGasto(s) ==
    /\ sesion[s].pc = "vista" /\ Escrituras < MaxEscrituras
    /\ \E id_borrar \in 1..(secuencia_id + 1), se_ejecuta \in BOOLEAN :
           IF se_ejecuta
           THEN /\ gastos_fijos_2026' = Eliminar(gastos_fijos_2026, id_borrar)
                /\ version' = Escrita("cargar_datos")
                /\ sesion' = TrasEscribir(s, "cargar_datos")
                /\ UNCHANGED <<ventas_2026, secuencia_id, configuracion_caja,
                               notas_precios, metas_mensuales, cache,
                               ultima_meta, fuera_de_sesiones>>
           ELSE NoEscribe

\* 'Ajustar' of config_caja, up to the return of
\* update({"saldo_inicial": nueva_base}).gt("id", 0).execute()
AjustarCaja(s) ==
    /\ sesion[s].pc = "vista" /\ Escrituras < MaxEscrituras
    /\ \E valor_real \in {caja_sistema(DatosDe(s)), 500},
          se_ejecuta \in BOOLEAN :
           LET nueva_base == valor_real - flujo_acumulado(DatosDe(s))
           IN  IF se_ejecuta
               THEN /\ configuracion_caja' =
                           [i \in 1..Len(configuracion_caja) |->
                               IF configuracion_caja[i].id > 0
                               THEN [configuracion_caja[i]
                                        EXCEPT !.saldo_inicial = nueva_base]
                               ELSE configuracion_caja[i]]
                    /\ version' = Escrita("cargar_datos")
                    /\ sesion' =
                           [TrasEscribir(s, "cargar_datos") EXCEPT
                               ![s].ajustado = <<valor_real>>]
                    /\ UNCHANGED <<ventas_2026, secuencia_id,
                                   gastos_fijos_2026, notas_precios,
                                   metas_mensuales, cache, ultima_meta,
                                   fuera_de_sesiones>>
               ELSE NoEscribe

\* 'Guardar' of nota_precio with a comment: guardar_nota_precio up to the
\* return of insert(...).execute()
GuardarNota(s) ==
    /\ sesion[s].pc = "vista" /\ Escrituras < MaxEscrituras
    /\ \E se_ejecuta \in BOOLEAN :
           IF se_ejecuta
           THEN /\ notas_precios' =
                       Append(notas_precios,
                              [id |-> secuencia_id + 1, nota |-> "Helada"])
                /\ secuencia_id' = secuencia_id + 1
                /\ version' = Escrita("cargar_notas_precios")
                /\ sesion' = TrasEscribir(s, "cargar_notas_precios")
                /\ UNCHANGED <<ventas_2026, gastos_fijos_2026,
                               configuracion_caja, metas_mensuales, cache,
                               ultima_meta, fuera_de_sesiones>>
           ELSE NoEscribe

DelMes(m) == m.anio = MesDeLaMeta.anio /\ m.mes = MesDeLaMeta.mes

\* 'Guardar Meta': guardar_meta up to the return of the select of the
\* rows of the month
ConsultarMeta(s) ==
    /\ sesion[s].pc = "vista" /\ Escrituras < MaxEscrituras
    /\ \E meta_utilidad \in {100, 200}, se_ejecuta \in BOOLEAN :
           IF se_ejecuta
           THEN /\ sesion' =
                       [sesion EXCEPT ![s] =
                           [@ EXCEPT !.pc = "meta_consultada",
                                     !.existente =
                                         SelectSeq(metas_mensuales, DelMes)
                                         # <<>>,
                                     !.meta_util = meta_utilidad]]
                /\ UNCHANGED <<bd_vars, cache, ultima_meta, fuera_de_sesiones>>
           ELSE NoEscribe

\* guardar_meta from the select to the return of the update or the insert
EscribirMeta(s) ==
    /\ sesion[s].pc = "meta_consultada"
    /\ \E se_ejecuta \in BOOLEAN :
           LET datos == [anio |-> MesDeLaMeta.anio, mes |-> MesDeLaMeta.mes,
                         meta_utilidad |-> sesion[s].meta_util]
           IN  IF se_ejecuta /\ Escrituras < MaxEscrituras
               THEN /\ IF sesion[s].existente
                       THEN /\ metas_mensuales' =
                                   [i \in 1..Len(metas_mensuales) |->
                                       IF DelMes(metas_mensuales[i])
                                       THEN ConId(datos,
                                                  metas_mensuales[i].id)
                                       ELSE metas_mensuales[i]]
                            /\ UNCHANGED secuencia_id
                       ELSE /\ metas_mensuales' =
                                   Append(metas_mensuales,
                                          ConId(datos, secuencia_id + 1))
                            /\ secuencia_id' = secuencia_id + 1
                    /\ version' = Escrita("cargar_metas")
                    /\ sesion' = TrasEscribir(s, "cargar_metas")
                    /\ UNCHANGED <<ventas_2026, gastos_fijos_2026,
                                   configuracion_caja, notas_precios, cache,
                                   ultima_meta, fuera_de_sesiones>>
               ELSE /\ sesion' = [sesion EXCEPT ![s] =
                                     [@ EXCEPT !.pc = "vista",
                                               !.existente = FALSE,
                                               !.meta_util = 0]]
                    /\ UNCHANGED <<bd_vars, cache, ultima_meta,
                                   fuera_de_sesiones>>

\* the line after execute(): the loader of the table is cleared, and
\* st.rerun() starts the script again; guardar_meta returns True here
LimpiarYRerun(s) ==
    /\ sesion[s].pc = "escrito"
    /\ cache' = [cache EXCEPT ![sesion[s].limpiar] = <<>>]
    /\ sesion' = [sesion EXCEPT ![s] =
                     [@ EXCEPT !.pc = "inicio", !.limpiar = ""]]
    /\ ultima_meta' =
           IF sesion[s].limpiar = "cargar_metas"
           THEN <<sesion[s].meta_util>>
           ELSE ultima_meta
    /\ UNCHANGED <<bd_vars, fuera_de_sesiones>>

SesionesNext ==
    \/ Caducar
    \/ \E s \in Sesiones :
           \/ ActualizarDatos(s) \/ IniciarCarga(s) \/ TerminarCarga(s)
           \/ Interactuar(s)
           \/ InsertarVenta(s) \/ EditarVenta(s) \/ BorrarVenta(s)
           \/ InsertarGasto(s) \/ BorrarGasto(s)
           \/ AjustarCaja(s)
           \/ LimpiarYRerun(s)

SpecSesiones == SesionesInit /\ [][SesionesNext]_vars

\* the notes and the goals
MetasInit ==
    /\ PreciosSinUso /\ VentasSinUso /\ AccesoSinUso /\ CarteraSinUso
    /\ CargaSinUso
    /\ gastos_fijos_2026 = <<>> /\ configuracion_caja = <<>>
    /\ notas_precios = <<>> /\ metas_mensuales = <<>>
    /\ cache = [l \in {"cargar_notas_precios", "cargar_metas"} |-> <<>>]
    /\ version = [l \in {"cargar_notas_precios", "cargar_metas"} |-> 0]
    /\ sesion =
           [s \in Sesiones |->
               SesionNueva({"cargar_notas_precios", "cargar_metas"})]
    /\ ultima_meta = <<>>

MetasNext ==
    \/ Caducar
    \/ \E s \in Sesiones :
           \/ ActualizarDatos(s) \/ IniciarCarga(s) \/ TerminarCarga(s)
           \/ Interactuar(s)
           \/ GuardarNota(s)
           \/ ConsultarMeta(s) \/ EscribirMeta(s)
           \/ LimpiarYRerun(s)

SpecMetas == MetasInit /\ [][MetasNext]_vars

----------------------------------------------------------------------------
(* The password gate at the top of the script                             *)

\* what a session may type in the text_input
Claves == {"", "clave", "otra"}

\* st.session_state.get(key): the value, or <<>> for None
Get(estado, key) == IF key \in DOMAIN estado THEN <<estado[key]>> ELSE <<>>

Sin(estado, key) == [k \in DOMAIN estado \ {key} |-> estado[k]]

Con(estado, key, valor) ==
    [k \in DOMAIN estado \cup {key} |-> IF k = key THEN valor ELSE estado[k]]

\* a callback that accepts the key and leaves the typed value in place
verificar_password_sin_borrar(estado, secretos) ==
    IF Get(estado, "password_input") = Get(secretos, "APP_PASSWORD")
    THEN Con(estado, "password_correct", TRUE)
    ELSE estado

\* the on_change callback of the text_input
verificar_password(estado, secretos) ==
    IF Get(estado, "password_input") = Get(secretos, "APP_PASSWORD")
    THEN Sin(Con(estado, "password_correct", TRUE), "password_input")
    ELSE estado

\* st.session_state.get("password_correct", False)
password_correct(estado) ==
    IF "password_correct" \in DOMAIN estado
    THEN estado["password_correct"]
    ELSE FALSE

\* a run of the script before its first line: no client, nothing loaded
EjecucionNueva(tecleado) ==
    [pc |-> "inicio", supabase |-> FALSE, cargado |-> FALSE,
     escrito |-> FALSE, tecleado |-> tecleado]

fuera_de_acceso ==
    <<precios_vars, ventas_vars, sesiones_vars, cartera_vars, carga_vars>>

AccesoInit ==
    /\ PreciosSinUso /\ VentasSinUso /\ SesionesSinUso /\ CarteraSinUso
    /\ CargaSinUso
    /\ session_state = [s \in Sesiones |-> [tema_oscuro |-> FALSE]]
    /\ secrets \in {[SUPABASE_URL |-> "url"],
                    [SUPABASE_URL |-> "url", APP_PASSWORD |-> "clave"]}
    /\ ejecucion = [s \in Sesiones |-> EjecucionNueva(<<>>)]

\* the gate: without password_correct the text_input is drawn and the run
\* stops
Compuerta(s) ==
    /\ ejecucion[s].pc = "inicio"
    /\ IF ~password_correct(session_state[s])
       THEN /\ session_state' =
                   [session_state EXCEPT ![s] =
                       IF "password_input" \in DOMAIN @
                       THEN @
                       ELSE Con(@, "password_input", "")]
            /\ ejecucion' = [ejecucion EXCEPT ![s].pc = "detenido"]
       ELSE /\ ejecucion' = [ejecucion EXCEPT ![s].pc = "conectando"]
            /\ UNCHANGED session_state
    /\ UNCHANGED <<secrets, fuera_de_acceso>>

\* a new value is typed in the text_input: the widget value is set, the
\* callback runs and the script runs again
Teclear(s) ==
    /\ ejecucion[s].pc = "detenido"
    /\ \E clave \in Claves \ {session_state[s]["password_input"]} :
           /\ session_state' =
                  [session_state EXCEPT ![s] =
                      verificar_password(Con(@, "password_input", clave),
                                         secrets)]
           /\ ejecucion' = [ejecucion EXCEPT ![s] = EjecucionNueva(<<clave>>)]
    /\ UNCHANGED <<secrets, fuera_de_acceso>>

\* create_client: it returns, or raises and the run stops
Conectar(s) ==
    /\ ejecucion[s].pc = "conectando"
    /\ \E conecta \in BOOLEAN :
           ejecucion' =
               [ejecucion EXCEPT ![s] =
                   IF conecta
                   THEN [@ EXCEPT !.pc = "principal", !.supabase = TRUE]
                   ELSE [@ EXCEPT !.pc = "error"]]
    /\ UNCHANGED <<session_state, secrets, fuera_de_acceso>>

\* the loaders are called and the page is drawn
CargarYMostrar(s) ==
    /\ ejecucion[s].pc = "principal"
    /\ ejecucion' = [ejecucion EXCEPT ![s] =
                        [@ EXCEPT !.pc = "vista", !.cargado = TRUE]]
    /\ UNCHANGED <<session_state, secrets, fuera_de_acceso>>

\* a write handler of the page runs
EscribirEnLibro(s) ==
    /\ ejecucion[s].pc = "vista"
    /\ ejecucion' = [ejecucion EXCEPT ![s].escrito = TRUE]
    /\ UNCHANGED <<session_state, secrets, fuera_de_acceso>>

\* st.rerun(), a widget of the page, or a reload after an error: the
\* script runs again with the same session state
OtraEjecucion(s) ==
    /\ ejecucion[s].pc \in {"vista", "error"}
    /\ ejecucion' =
           [ejecucion EXCEPT ![s] = EjecucionNueva(ejecucion[s].tecleado)]
    /\ UNCHANGED <<session_state, secrets, fuera_de_acceso>>

AccesoNext ==
    \E s \in Sesiones :
        \/ Compuerta(s) \/ Teclear(s) \/ Conectar(s)
        \/ CargarYMostrar(s) \/ EscribirEnLibro(s) \/ OtraEjecucion(s)

SpecAcceso == AccesoInit /\ [][AccesoNext]_vars

----------------------------------------------------------------------------
(* Receivables: the alert banner and the colours of the cartera           *)

\* rows of the frame of a run
MaxCartera == 2

Verde == "background-color: #e8f5e9; color: #1b5e20; font-weight: bold;"
Rojo == "background-color: #ffebee; color: #b71c1c; font-weight: bold;"
Amarillo == "background-color: #fff8e1; color: #f57f17; font-weight: bold;"

\* a cell of the column Dias_Credito is <<n>>, or <<>> when it is null
notnull(x) == x # <<>>

\* (row.Fecha + dias - hoy).days
DiasHasta(fecha, dias, dia_de_hoy) ==
    Ordinal(fecha) + dias - Ordinal(dia_de_hoy)

\* a colouring that takes the third day as not due soon
color_deuda_sin_tercer_dia(row, dia_de_hoy) ==
    IF row.Estado_Pago = "Pagado"
    THEN Verde
    ELSE IF row.Estado_Pago = "Pendiente"
    THEN LET dias_credito ==
                 IF notnull(row.Dias_Credito) THEN row.Dias_Credito[1] ELSE 0
             dias_restantes == DiasHasta(row.Fecha, dias_credito, dia_de_hoy)
         IN  IF dias_restantes < 0
             THEN Rojo
             ELSE IF dias_restantes < 3 THEN Amarillo ELSE ""
    ELSE ""

\* color_deuda(row), with date.today() as dia_de_hoy: the style of the
\* cells of the row
color_deuda(row, dia_de_hoy) ==
    IF row.Estado_Pago = "Pagado"
    THEN Verde
    ELSE IF row.Estado_Pago = "Pendiente"
    THEN LET dias_credito ==
                 IF notnull(row.Dias_Credito) THEN row.Dias_Credito[1] ELSE 0
             dias_restantes == DiasHasta(row.Fecha, dias_credito, dia_de_hoy)
         IN  IF dias_restantes < 0
             THEN Rojo
             ELSE IF dias_restantes <= 3 THEN Amarillo ELSE ""
    ELSE ""

\* pendientes of the banner, with Dias_Credito coerced and nulls filled
Pendientes(df_v) ==
    LET pendientes == SelectSeq(df_v, LAMBDA r : r.Estado_Pago = "Pendiente")
    IN  [i \in 1..Len(pendientes) |->
            [pendientes[i] EXCEPT
                !.Dias_Credito = IF notnull(@) THEN @ ELSE <<0>>]]

dias_hasta_venc(r, dia_de_hoy) ==
    DiasHasta(r.Fecha, r.Dias_Credito[1], dia_de_hoy)

\* the rows of the two alerts of the banner
Vencidas(df_v, dia_de_hoy) ==
    SelectSeq(Pendientes(df_v), LAMBDA r : dias_hasta_venc(r, dia_de_hoy) < 0)

Urgentes(df_v, dia_de_hoy) ==
    SelectSeq(Pendientes(df_v),
              LAMBDA r : /\ dias_hasta_venc(r, dia_de_hoy) >= 0
                         /\ dias_hasta_venc(r, dia_de_hoy) <= 3)

\* dates of sale and dates of the run, around the end of February of a
\* common and of a leap year
FechasDeVenta ==
    {Fecha(2026, 1, 30), Fecha(2026, 2, 25), Fecha(2026, 2, 26),
     Fecha(2026, 3, 1), Fecha(2024, 2, 26)}

DiasDeHoy == {Fecha(2026, 3, 1), Fecha(2024, 3, 1)}

FilasDeCartera ==
    [Estado_Pago : {"Pagado", "Pendiente"}, Fecha : FechasDeVenta,
     Dias_Credito : {<<>>, <<3>>, <<4>>, <<30>>}]

fuera_de_cartera ==
    <<precios_vars, ventas_vars, sesiones_vars, acceso_vars, carga_vars>>

CarteraInit ==
    /\ PreciosSinUso /\ VentasSinUso /\ SesionesSinUso /\ AccesoSinUso
    /\ CargaSinUso
    /\ \E filas \in SecuenciasHasta(FilasDeCartera, MaxCartera) :
           df_ventas = [i \in 1..Len(filas) |-> [ID |-> i] @@ filas[i]]
    /\ hoy \in DiasDeHoy
    /\ alertas_criticas = <<>> /\ colores = <<>>

\* the banner of the run
AlertasCriticas ==
    /\ alertas_criticas = <<>>
    /\ alertas_criticas' =
           <<[vencidas |-> Vencidas(df_ventas, hoy),
              urgentes |-> Urgentes(df_ventas, hoy)]>>
    /\ UNCHANGED <<df_ventas, hoy, colores, fuera_de_cartera>>

\* the cartera of the run: style.apply(color_deuda, axis=1)
Colorear ==
    /\ alertas_criticas # <<>> /\ colores = <<>>
    /\ colores' =
           <<[i \in 1..Len(df_ventas) |-> color_deuda(df_ventas[i], hoy)]>>
    /\ UNCHANGED <<df_ventas, hoy, alertas_criticas, fuera_de_cartera>>

CarteraNext == AlertasCriticas \/ Colorear

SpecCartera == CarteraInit /\ [][CarteraNext]_vars

----------------------------------------------------------------------------
(* The batch loop of the 2025 upload script                               *)

\* prepared records of an upload
MaxRegistros == 250

batch_size == 100

\* a slice that leaves out the last record of a full batch
LoteCorto(regs, i) ==
    SubSeq(regs, i + 1,
           IF i + batch_size - 1 < Len(regs)
           THEN i + batch_size - 1
           ELSE Len(regs))

\* registros[i:i+batch_size]
Lote(regs, i) ==
    SubSeq(regs, i + 1,
           IF i + batch_size < Len(regs) THEN i + batch_size ELSE Len(regs))

fuera_de_carga ==
    <<precios_vars, ventas_vars, sesiones_vars, acceso_vars, cartera_vars>>

\* the records are prepared and the counters are at 0
CargaInit ==
    /\ PreciosSinUso /\ VentasSinUso /\ SesionesSinUso /\ AccesoSinUso
    /\ CarteraSinUso
    /\ registros \in {[k \in 1..n |-> k] : n \in 0..MaxRegistros}
    /\ indice = 0 /\ total_insertados = 0 /\ errores_carga = 0
    /\ intentos = <<>> /\ ventas_2025 = <<>>
    /\ etapa = "lotes"

\* one pass of the for over range(0, len(registros), batch_size): the
\* insert of the batch returns or raises
InsertarLote ==
    /\ etapa = "lotes" /\ indice < Len(registros)
    /\ LET batch == Lote(registros, indice)
       IN  /\ intentos' = Append(intentos, batch)
           /\ \E se_ejecuta \in BOOLEAN :
                  IF se_ejecuta
                  THEN /\ ventas_2025' = ventas_2025 \o batch
                       /\ total_insertados' = total_insertados + Len(batch)
                       /\ UNCHANGED errores_carga
                  ELSE /\ errores_carga' = errores_carga + Len(batch)
                       /\ UNCHANGED <<ventas_2025, total_insertados>>
    /\ indice' = indice + batch_size
    /\ UNCHANGED <<registros, etapa, fuera_de_carga>>

\* the range is used up: the summary is shown
Resumen ==
    /\ etapa = "lotes" /\ indice >= Len(registros)
    /\ etapa' = "resumen"
    /\ UNCHANGED <<registros, indice, total_insertados, errores_carga, intentos,
                   ventas_2025, fuera_de_carga>>

CargaNext == InsertarLote \/ Resumen

SpecCarga == CargaInit /\ [][CargaNext]_vars

----------------------------------------------------------------------------
(* Properties *)

Predijo == llamada = "predecir_precio_proxima_semana"
AnalizoDias == llamada = "analizar_mejor_dia_compra"
DetectoPatrones == llamada = "detectar_patrones_estacionales"
AnalizoHistoricos == llamada = "analizar_precios_historicos"

\* the call returned a value
Retorno == llamada # "ninguna" /\ resultado # ZeroDivisionError

DiasSemana == {DiasEnOrden[i] : i \in 1..Len(DiasEnOrden)}

\* the rows of the input that are of the product
DelProducto == SelectSeq(df, LAMBDA r : r.producto = producto)
\* the qualifying observations of the input: of the product, price > 0
Calificadas == SelectSeq(DelProducto, LAMBDA r : r.precio_compra > 0)

OrdenadaPorFecha(fechas) ==
    \A i, j \in 1..Len(fechas) : i < j => ~FechaMenor(fechas[j], fechas[i])

\* C1: the series every price-intelligence function works on holds only rows
\* of the product with price > 0, in non-decreasing order of date
C1_SerieFiltrada ==
    llamada # "ninguna" =>
        /\ \A i \in 1..Len(df_prod) :
              df_prod[i].producto = producto /\ df_prod[i].precio_compra > 0
        /\ OrdenadaPorFecha(Columna(df_prod, "fecha"))
        /\ \A i \in 1..Len(df_2026_prod) :
              /\ df_2026_prod[i].Producto = producto
              /\ df_2026_prod[i].Precio_Compra > 0
        /\ OrdenadaPorFecha(Columna(df_2026_prod, "Fecha"))

\* what the function last called returns on the input d (and df_2026)
ResultadoCon(d) ==
    CASE Predijo -> predecir_precio_proxima_semana(d, producto).resultado
      [] AnalizoDias -> analizar_mejor_dia_compra(d, producto).resultado
      [] DetectoPatrones -> detectar_patrones_estacionales(d, producto).resultado
      [] AnalizoHistoricos ->
            analizar_precios_historicos(d, df_2026, producto).resultado

FilasSinPrecio ==
    {Fila(f, producto, 0) : f \in {Lunes6, Martes7, Fecha(2025, 2, 3)}}

\* C2: adding observations with price <= 0 to the input leaves every output
\* of every function unchanged
C2_SinPrecioNoCuenta ==
    llamada # "ninguna" =>
        \A r \in FilasSinPrecio : ResultadoCon(Append(df, r)) = resultado

\* C3: with fewer than 4 qualifying observations the forecaster returns the
\* zero-value result, with exactly 4 a non-zero estimate
C3_MinimoDeDatos ==
    Predijo =>
        /\ Len(Calificadas) < 4 => resultado = PrediccionInicial
        /\ Len(Calificadas) = 4 => resultado.precio_estimado # Entero(0)

\* C4: whenever the estimate is non-zero,
\* rango_min <= precio_estimado <= rango_max and rango_min >= 0
C4_Banda ==
    Predijo /\ resultado.precio_estimado # Entero(0) =>
        /\ RLe(resultado.rango_min, resultado.precio_estimado)
        /\ RLe(resultado.precio_estimado, resultado.rango_max)
        /\ RLe(Entero(0), resultado.rango_min)

\* an estimate whose lower limit was cut at 0, below a wider upper limit
C4_Testigo ==
    /\ Predijo
    /\ resultado.precio_estimado # Entero(0)
    /\ resultado.rango_min = Entero(0)
    /\ RLt(resultado.precio_estimado, resultado.rango_max)

\* the window of the forecast: the last 8 prices of the sorted series
VentanaUsada == Ultimos(Columna(df_prod, "precio_compra"), 8)
SumaAntigua == Suma(SubSeq(VentanaUsada, 1, Len(VentanaUsada) \div 2))
SumaReciente ==
    Suma(SubSeq(VentanaUsada, (Len(VentanaUsada) \div 2) + 1, Len(VentanaUsada)))
\* 10 * (recent mean - older mean) and the older mean, both times
\* (rows of the older half) * (rows of the recent half)
DiezVecesCambio ==
    LET h == Len(VentanaUsada) \div 2
        k == Len(VentanaUsada) - h
    IN  10 * (SumaReciente * h - SumaAntigua * k)
BaseCambio == SumaAntigua * (Len(VentanaUsada) - (Len(VentanaUsada) \div 2))

OperacionesDelDia(dia) == Len(PreciosDelDia(DelProducto, dia))

\* C6: in a result of analizar_mejor_dia_compra, a weekday with exactly 1
\* observation of the product is not a key of precio_promedio and a weekday
\* with exactly 2 is
C6_UmbralPorDia ==
    AnalizoDias /\ Retorno =>
        \A dia \in DiasSemana :
            /\ OperacionesDelDia(dia) = 1 =>
                  dias_es(dia) \notin DOMAIN resultado.precio_promedio
            /\ OperacionesDelDia(dia) = 2 =>
                  dias_es(dia) \in DOMAIN resultado.precio_promedio

\* Monday has two observations and Tuesday one: only Lunes is a key
C6_Testigo ==
    /\ AnalizoDias /\ Retorno
    /\ OperacionesDelDia("Monday") = 2
    /\ OperacionesDelDia("Tuesday") = 1
    /\ DOMAIN resultado.precio_promedio = {"Lunes"}

\* the qualifying prices of weekday dia, and the weekdays with >= 2 of them
CalificadasDelDia(dia) == PreciosDelDia(Calificadas, dia)
DiasCalificados == {dia \in DiasSemana : Len(CalificadasDelDia(dia)) >= 2}

\* C7: mejor_dia is a weekday with >= 2 qualifying observations whose mean is
\* the least among such weekdays; with no such weekday the result is the
\* empty advisory
C7_MejorDia ==
    AnalizoDias /\ Retorno =>
        IF DiasCalificados = {}
        THEN resultado = AnalisisDiasInicial
        ELSE \E dia \in DiasCalificados :
                /\ resultado.mejor_dia = dias_es(dia)
                /\ \A otro \in DiasCalificados :
                      RLe(Media(CalificadasDelDia(dia)),
                          Media(CalificadasDelDia(otro)))

\* the weekdays with >= 2 observations of the product and their mean prices
DiasElegibles == {dia \in DiasSemana : OperacionesDelDia(dia) >= 2}
MediaDelDia(dia) == Media(PreciosDelDia(DelProducto, dia))

\* C8: ahorro_potencial is the greatest mean minus the least mean over the
\* eligible weekdays, is >= 0, and is 0 with one eligible weekday; Monday
\* [100, 100] and Tuesday [200, 200] give Lunes and 100
C8_Ahorro ==
    AnalizoDias /\ Retorno /\ DiasElegibles # {} =>
        LET elegibles == DiasElegibles
            media == [dia \in elegibles |-> MediaDelDia(dia)]
        IN
        /\ \E mejor, peor \in elegibles :
              /\ \A dia \in elegibles :
                    RLe(media[mejor], media[dia]) /\ RLe(media[dia], media[peor])
              /\ resultado.ahorro_potencial = RSub(media[peor], media[mejor])
        /\ RLe(Entero(0), resultado.ahorro_potencial)
        /\ Cardinality(elegibles) = 1 =>
              resultado.ahorro_potencial = Entero(0)
        /\ (/\ PreciosDelDia(DelProducto, "Monday") = <<100, 100>>
            /\ PreciosDelDia(DelProducto, "Tuesday") = <<200, 200>>) =>
              /\ resultado.mejor_dia = "Lunes"
              /\ resultado.ahorro_potencial = Entero(100)

\* the example of C8
C8_Testigo ==
    /\ AnalizoDias /\ Retorno
    /\ PreciosDelDia(DelProducto, "Monday") = <<100, 100>>
    /\ PreciosDelDia(DelProducto, "Tuesday") = <<200, 200>>
    /\ resultado.mejor_dia = "Lunes"
    /\ resultado.ahorro_potencial = Entero(100)

\* the months with >= 2 observations of the product
OperacionesDelMes(m) == Len(PreciosDelMes(DelProducto, m))
MesesElegibles == {m \in 1..12 : OperacionesDelMes(m) >= 2}

\* C9: with fewer than 12 observations of the product, or with fewer than 3
\* months of >= 2 observations, no pattern is detected and both lists are
\* empty
C9_Compuerta ==
    DetectoPatrones
    /\ (Len(DelProducto) < 12 \/ Cardinality(MesesElegibles) < 3) =>
        /\ resultado.patron_detectado = FALSE
        /\ resultado.meses_caros = <<>>
        /\ resultado.meses_baratos = <<>>

\* 12 observations in two months of unlike means: nothing is detected
C9_Testigo ==
    /\ DetectoPatrones
    /\ Len(DelProducto) = 12
    /\ MesesElegibles = {1, 2}
    /\ PreciosDelMes(DelProducto, 1) # PreciosDelMes(DelProducto, 2)
    /\ resultado.patron_detectado = FALSE

\* every observation of month m has price x
MesAPrecio(m, x) ==
    \A i \in 1..Len(PreciosDelMes(DelProducto, m)) :
        PreciosDelMes(DelProducto, m)[i] = x

EjemploEstacional ==
    /\ {m \in 1..12 : OperacionesDelMes(m) > 0} = {1, 2, 3}
    /\ MesAPrecio(1, 100) /\ MesAPrecio(2, 100) /\ MesAPrecio(3, 200)

PatronDelEjemplo ==
    /\ resultado.meses_caros = <<"Marzo">>
    /\ resultado.meses_baratos = <<"Enero", "Febrero">>
    /\ resultado.patron_detectado = TRUE

\* C10 as stated: January and February with two observations of 100 each and
\* March with two of 200 yield March expensive, January and February cheap,
\* detected
C10_EjemploOriginal ==
    (/\ DetectoPatrones
     /\ EjemploEstacional
     /\ \A m \in {1, 2, 3} : OperacionesDelMes(m) = 2) => PatronDelEjemplo

\* C10: January and February at 100 and March at 200, each month with >= 2
\* observations: with 12 or more observations in all the detector yields
\* Marzo expensive, Enero and Febrero cheap, detected; with fewer (two
\* observations per month) it detects nothing
C10_Ejemplo ==
    (/\ DetectoPatrones
     /\ EjemploEstacional
     /\ \A m \in {1, 2, 3} : OperacionesDelMes(m) >= 2) =>
        IF Len(DelProducto) >= 12 THEN PatronDelEjemplo
        ELSE resultado = PatronesInicial

\* four observations in each of the three months
C10_Testigo ==
    /\ DetectoPatrones
    /\ EjemploEstacional
    /\ \A m \in {1, 2, 3} : OperacionesDelMes(m) = 4
    /\ PatronDelEjemplo


\* the calendar number of a month name of the result
MesDeNombre(nombre) == CHOOSE m \in 1..12 : meses_nombres[m + 1] = nombre

MesesListados(lista) == {MesDeNombre(lista[i]) : i \in 1..Len(lista)}

EnOrdenDeCalendario(lista) ==
    \A i \in 1..Len(lista) - 1 :
        MesDeNombre(lista[i]) < MesDeNombre(lista[i + 1])

\* C11: in every result of the seasonal detector patron_detectado is true
\* exactly when meses_caros or meses_baratos is non-empty, every listed month
\* has >= 2 observations of the product, and each list is in calendar order
C11_Deteccion ==
    DetectoPatrones =>
        /\ resultado.patron_detectado =
               (resultado.meses_caros # <<>> \/ resultado.meses_baratos # <<>>)
        /\ \A lista \in {resultado.meses_caros, resultado.meses_baratos} :
               /\ \A i \in 1..Len(lista) :
                      \E m \in MesesElegibles : meses_nombres[m + 1] = lista[i]
               /\ EnOrdenDeCalendario(lista)

\* January and March expensive around a cheap February that has exactly two
\* observations
C11_Testigo ==
    /\ DetectoPatrones
    /\ resultado.patron_detectado = TRUE
    /\ resultado.meses_caros = <<"Enero", "Marzo">>
    /\ resultado.meses_baratos = <<"Febrero">>
    /\ OperacionesDelMes(2) = 2


\* the prices of the product in bucket k = <<month, week of month>>, by period
PreciosA(k) ==
    Columna(SelectSeq(DelProducto,
                      LAMBDA r : r.fecha.mes = k[1]
                                 /\ ((r.fecha.dia - 1) \div 7) + 1 = k[2]),
            "precio_compra")
PreciosB(k) ==
    Columna(SelectSeq(df_2026,
                      LAMBDA r : r.Producto = producto /\ r.Fecha.mes = k[1]
                                 /\ ((r.Fecha.dia - 1) \div 7) + 1 = k[2]),
            "Precio_Compra")

\* C12: in every bucket record of the comparator diferencia = precio_2026 -
\* precio_2025 and porcentaje = diferencia / precio_2025 * 100 when
\* precio_2025 > 0, else 0; a bucket with no 2025 observation and a priced
\* 2026 observation has a record with precio_2025 = 0 and porcentaje = 0
C12_RellenoConCero ==
    AnalizoHistoricos =>
        /\ \A k \in DOMAIN resultado.por_semana :
               LET c == resultado.por_semana[k]
               IN  /\ c.diferencia = RSub(c.precio_2026, c.precio_2025)
                   /\ IF RLt(Entero(0), c.precio_2025)
                      THEN RMul(c.porcentaje, c.precio_2025)
                               = RMul(c.diferencia, Entero(100))
                      ELSE c.porcentaje = Entero(0)
        /\ \A i \in 1..Len(df_2026) :
               LET k == <<df_2026[i].Fecha.mes,
                          ((df_2026[i].Fecha.dia - 1) \div 7) + 1>>
               IN  (/\ df_2026[i].Producto = producto
                    /\ df_2026[i].Precio_Compra > 0
                    /\ PreciosA(k) = <<>>) =>
                       /\ k \in DOMAIN resultado.por_semana
                       /\ resultado.por_semana[k].precio_2025 = Entero(0)
                       /\ resultado.por_semana[k].porcentaje = Entero(0)

\* week 1 of January seen only in 2026 and week 2 seen only in 2025
C12_Testigo ==
    /\ AnalizoHistoricos
    /\ PreciosA(<<1, 1>>) = <<>> /\ PreciosB(<<1, 1>>) = <<200>>
    /\ PreciosA(<<1, 2>>) = <<100>> /\ PreciosB(<<1, 2>>) = <<>>
    /\ resultado.por_semana[<<1, 1>>].porcentaje = Entero(0)
    /\ resultado.por_semana[<<1, 2>>].porcentaje = Entero(-100)


\* C13: no call of a price-intelligence function raises: whatever the input
\* (empty, no row of the product, too few rows, prices that make a mean 0),
\* the call returns a result record
C13_NuncaFalla ==
    llamada # "ninguna" =>
        /\ resultado # ZeroDivisionError
        /\ "excepcion" \notin DOMAIN resultado


NombreVisible ==
    [d \in DiasSemana |->
        CASE d = "Monday" -> "Lunes" [] d = "Tuesday" -> "Martes"
          [] d = "Wednesday" -> "Miércoles" [] d = "Thursday" -> "Jueves"
          [] d = "Friday" -> "Viernes" [] d = "Saturday" -> "Sábado"
          [] d = "Sunday" -> "Domingo"]
DiasVisibles == {NombreVisible[d] : d \in DiasSemana}
MesesVisibles ==
    {"Enero", "Febrero", "Marzo", "Abril", "Mayo", "Junio", "Julio", "Agosto",
     "Septiembre", "Octubre", "Noviembre", "Diciembre"}

\* the currency texts of the whole amounts up to the largest price
TextosDeMoneda == {FormatoMoneda(Entero(n)) : n \in 0..200}

Elementos(lista) == {lista[i] : i \in 1..Len(lista)}

C17_BaseCero ==
    (Predijo /\ Len(df_prod) >= 4 /\ SumaAntigua = 0) =>
        resultado.tendencia = "estable"


\* how many rows of s equal r
Veces(s, r) == Cardinality({i \in 1..Len(s) : s[i] = r})

\* C18: with n >= 4 observations of the product the estimate is the weighted
\* average of the last min(n, 8) of them in ascending order of date, with
\* weights 1, 1.5, 2, ... from the oldest to the newest of the window; the
\* observations before the last 8 have no part in it
C18_PromedioPonderado ==
    (Predijo /\ Len(df) >= 4) =>
        LET serie == DelProducto
            n == Len(df_prod)
            k == IF n < 8 THEN n ELSE 8
            x == [i \in 1..k |-> df_prod[n - k + i].precio_compra]
        IN  Len(serie) >= 4 =>
            /\ n = Len(serie)
            /\ \A r \in {df_prod[i] : i \in 1..n} :
                   Veces(df_prod, r) = Veces(serie, r)
            /\ \A i \in 1..n - 1 :
                   ~FechaMenor(df_prod[i + 1].fecha, df_prod[i].fecha)
            /\ resultado.precio_estimado.num * Suma([i \in 1..k |-> i + 1])
                   = resultado.precio_estimado.den
                         * Suma([i \in 1..k |-> (i + 1) * x[i]])

\* 18 observations: the oldest is at 200, the window holds two at 200, three
\* at 100 and three at 200, and the estimate is 7300 / 44
C18_Testigo ==
    /\ Predijo
    /\ Len(df_prod) = 18
    /\ df_prod[1].precio_compra = 200
    /\ [i \in 1..8 |-> df_prod[10 + i].precio_compra]
           = <<200, 200, 100, 100, 100, 200, 200, 200>>
    /\ resultado.precio_estimado = Rat(1825, 11)


\* the population standard deviation of the window, sqrt(n * sum(x^2) -
\* sum(x)^2) / n, to the precision of the model
DesviacionPoblacional ==
    LET xs == VentanaUsada
        k == Len(xs)
        v == k * Suma([i \in 1..k |-> xs[i] * xs[i]]) - Suma(xs) * Suma(xs)
    IN  Rat(RaizEntera(v * PrecisionRaiz * PrecisionRaiz), k * PrecisionRaiz)

\* C19: confianza is always within [0, 100]; it is max(0, 100 - desviacion /
\* precio_estimado * 100) with the population standard deviation of the
\* window, 0 when precio_estimado is 0, and 100 when the prices of the window
\* are all equal and positive
C19_Confianza ==
    Predijo =>
        LET e == resultado.precio_estimado
            c == resultado.confianza
        IN  /\ RLe(Entero(0), c) /\ RLe(c, Entero(100))
            /\ e.num = 0 => c = Entero(0)
            /\ (Len(df_prod) >= 4 /\ e.num > 0) =>
                   c = RMax(Entero(0),
                            RSub(Entero(100),
                                 RMul(RDiv(DesviacionPoblacional, e),
                                      Entero(100))))
            /\ Len(df_prod) >= 4 =>
                   LET xs == VentanaUsada
                   IN  (xs[1] > 0 /\ \A i \in 1..Len(xs) : xs[i] = xs[1])
                           => c = Entero(100)

\* a window of unlike prices whose confidence lies strictly between 0 and 100
C19_Testigo ==
    /\ Predijo
    /\ Len(df_prod) >= 4
    /\ VentanaUsada = <<100, 100, 200, 200>>
    /\ RLt(Entero(0), resultado.confianza)
    /\ RLt(resultado.confianza, Entero(100))


\* C20: every result of the forecaster carries ultimo_precio: with an
\* estimate it is the price of the latest-dated observation of the window,
\* and with fewer than 4 observations it is present and 0
C20_UltimoPrecio ==
    Predijo =>
        /\ "ultimo_precio" \in DOMAIN resultado
        /\ IF Len(DelProducto) >= 4
           THEN /\ resultado.ultimo_precio
                       = Entero(df_prod[Len(df_prod)].precio_compra)
                /\ \A i \in 1..Len(df_prod) :
                       ~FechaMenor(df_prod[Len(df_prod)].fecha, df_prod[i].fecha)
           ELSE resultado.ultimo_precio = Entero(0)


\* the mean price of the product's observations of calendar month m, of
\* whatever year
MediaDelMes(m) == Media(PreciosDelMes(DelProducto, m))

RECURSIVE SumaDeMedias(_)
SumaDeMedias(M) ==
    IF M = {} THEN Entero(0)
    ELSE LET m == CHOOSE x \in M : TRUE
         IN  RAdd(MediaDelMes(m), SumaDeMedias(M \ {m}))

\* the unweighted mean of the eligible months' means
MediaDeMedias ==
    RDiv(SumaDeMedias(MesesElegibles), Entero(Cardinality(MesesElegibles)))

ClasificaPatrones ==
    /\ DetectoPatrones
    /\ Len(DelProducto) >= 12
    /\ Cardinality(MesesElegibles) >= 3

\* C21: the seasonal detector lists as expensive exactly the eligible months
\* whose mean is strictly above 1.15 times the mean of the eligible months'
\* means and as cheap exactly those strictly below 0.85 times it, so that a
\* month exactly on a threshold is in neither list and no month is in both
C21_Clasificacion ==
    ClasificaPatrones =>
        /\ MesesListados(resultado.meses_caros) =
               {m \in MesesElegibles :
                    RLt(RMul(MediaDeMedias, Rat(115, 100)), MediaDelMes(m))}
        /\ MesesListados(resultado.meses_baratos) =
               {m \in MesesElegibles :
                    RLt(MediaDelMes(m), RMul(MediaDeMedias, Rat(85, 100)))}
        /\ MesesListados(resultado.meses_caros)
               \cap MesesListados(resultado.meses_baratos) = {}


\* the bucket of a date: its month and its week of the month
Cubeta(f) == <<f.mes, ((f.dia - 1) \div 7) + 1>>

CubetasConFilas ==
    {Cubeta(DelProducto[i].fecha) : i \in 1..Len(DelProducto)}
    \cup {Cubeta(df_2026[i].Fecha) :
              i \in {j \in 1..Len(df_2026) : df_2026[j].Producto = producto}}

MediaOCero(xs) == IF xs = <<>> THEN Entero(0) ELSE Media(xs)

\* C22: every observation of the product, of either period, falls in one
\* bucket <<month 1..12, week of month 1..5>> with week of month =
\* ((day - 1) \div 7) + 1; the comparator has a record for a bucket exactly
\* when one of the two period means of the bucket is not 0, and the record
\* holds the two means (0 for a period with no observation in the bucket)
C22_Cubetas ==
    AnalizoHistoricos =>
        /\ CubetasConFilas \subseteq (1..12) \X (1..5)
        /\ DOMAIN resultado.por_semana \subseteq CubetasConFilas
        /\ \A k \in CubetasConFilas :
               LET precio_a == MediaOCero(PreciosA(k))
                   precio_b == MediaOCero(PreciosB(k))
               IN  /\ (k \in DOMAIN resultado.por_semana) =
                          (precio_a # Entero(0) \/ precio_b # Entero(0))
                   /\ k \in DOMAIN resultado.por_semana =>
                          /\ resultado.por_semana[k].precio_2025 = precio_a
                          /\ resultado.por_semana[k].precio_2026 = precio_b

\* days 1 and 7 of January share week 1, whose mean of 100 and 200 is 150
\* against 300 in the other period; day 31 is in week 5, whose only price is
\* 0 and which has no record
C22_Testigo ==
    /\ AnalizoHistoricos
    /\ PreciosA(<<1, 1>>) = <<100, 200>>
    /\ Cubeta(df[2].fecha) = <<1, 1>> /\ df[2].fecha.dia = 7
    /\ resultado.por_semana[<<1, 1>>].precio_2025 = Entero(150)
    /\ resultado.por_semana[<<1, 1>>].precio_2026 = Entero(0)
    /\ PreciosB(<<1, 5>>) = <<0>>
    /\ <<1, 5>> \notin DOMAIN resultado.por_semana


\* utilidad of a row as the claim gives it, from the row's stored fields
UtilidadDeLosCampos(r) ==
    (r.kg_venta * r.precio_venta
        - (r.kg_compra * r.precio_compra + r.viaticos + r.fletes
               + r.otros_gastos))
    - r.retenciones - r.descuentos

\* C23: after any sequence of 'Guardar Operación' inserts and cartera edits
\* every row of ventas_2026 has utilidad = (kg_venta * precio_venta -
\* (kg_compra * precio_compra + viaticos + fletes + otros_gastos))
\* - retenciones - descuentos of its stored fields, which is also
\* calcular_utilidad_bruta of them minus retenciones and descuentos
C23_Utilidad ==
    \A i \in 1..Len(ventas_2026) :
        LET r == ventas_2026[i]
        IN  /\ r.utilidad = UtilidadDeLosCampos(r)
            /\ r.utilidad =
                   calcular_utilidad_bruta(r.kg_venta, r.precio_venta,
                                           r.kg_compra, r.precio_compra,
                                           r.viaticos, r.fletes,
                                           r.otros_gastos)
                   - r.retenciones - r.descuentos

\* an inserted row with retenciones 50 and an inserted row edited to
\* descuentos 30
C23_Testigo ==
    /\ Len(ventas_2026) = 2
    /\ ventas_2026[1].descuentos = 30 /\ ventas_2026[1].proveedor = ""
    /\ ventas_2026[1].utilidad = 170
    /\ ventas_2026[2].retenciones = 50 /\ ventas_2026[2].utilidad = 150


\* the rule of the claim on the fields of a row
CumpleLaRegla(r) ==
    /\ r.kg_compra > 0 /\ r.precio_compra > 0
    /\ r.kg_venta > 0 /\ r.precio_venta > 0
    /\ r.viaticos >= 0 /\ r.fletes >= 0 /\ r.otros_gastos >= 0
    /\ r.retenciones >= 0 /\ r.descuentos >= 0
    /\ \A c \in CamposNumericos : r[c] <= LimiteCantidad

FilasDe(tabla) == {tabla[i] : i \in 1..Len(tabla)}
IdsDe(tabla) == {tabla[i].id : i \in 1..Len(tabla)}

\* the warnings validar_operacion_comercial gives for the fields of a row
AdvertenciasDe(r) ==
    validar_operacion_comercial(r.kg_compra, r.precio_compra, r.kg_venta,
                                r.precio_venta, r.viaticos, r.fletes,
                                r.otros_gastos, r.retenciones,
                                r.descuentos)[2]

\* C24: a step writes a row of ventas_2026 (a new row, or new values of a
\* row) only with kg_compra, precio_compra, kg_venta, precio_venta > 0,
\* viaticos, fletes, otros_gastos, retenciones, descuentos >= 0 and none of
\* them above 1,000,000, and a new row only with a provider and a client;
\* values that raise warnings are written all the same
C24_Compuerta ==
    [][\A r \in FilasDe(ventas_2026') \ FilasDe(ventas_2026) :
           /\ CumpleLaRegla(r)
           /\ r.id \notin IdsDe(ventas_2026) =>
                  r.proveedor # "" /\ r.cliente # ""]_vars

\* written rows that raised warnings: a sale at 80 of what cost 100, at a
\* loss, and viaticos at the limit that turn the profit negative; the second
\* row lost its provider in an edit
C24_Testigo ==
    /\ Len(ventas_2026) = 2
    /\ AdvertenciasDe(ventas_2026[1]) =
           <<"Pérdida en precio", "Utilidad neta negativa">>
    /\ ventas_2026[1].precio_venta = 80
    /\ AdvertenciasDe(ventas_2026[2]) = <<"Utilidad neta negativa">>
    /\ ventas_2026[2].viaticos = LimiteCantidad
    /\ ventas_2026[2].utilidad < 0
    /\ ventas_2026[2].proveedor = ""

\* the run of s that follows a write of s whose execute() returned
TrasEscrituraPropia(s) == sesion[s].pc = "vista" /\ sesion[s].propia # <<>>

\* C25: after a write of the app that succeeded, the loader of the written
\* table is cleared before the rerun, so the run that follows renders frames
\* that were read after that write
C25_Invalidacion ==
    \A s \in Sesiones :
        TrasEscrituraPropia(s) =>
            LET propia == sesion[s].propia[1]
            IN  sesion[s].datos[propia.cargador][1].leido_en >= propia.version

\* C26: after an 'Ajustar' with the value V that succeeded, the cash figure
\* of the next run is V
C26_Calibracion ==
    \A s \in Sesiones :
        sesion[s].pc = "vista" /\ sesion[s].ajustado # <<>> =>
            caja_sistema(DatosDe(s)) = sesion[s].ajustado[1]

\* C27: metas_mensuales holds at most one row of a month, and that row has
\* the values of the last guardar_meta call that returned
C27_Upsert ==
    LET del_mes == SelectSeq(metas_mensuales, DelMes)
    IN  /\ Len(del_mes) <= 1
        /\ ultima_meta # <<>> =>
               \A i \in 1..Len(del_mes) :
                   del_mes[i].meta_utilidad = ultima_meta[1]

\* C28: while password_correct is false the session has no client and has
\* loaded, drawn and written nothing; password_correct turns true only when
\* the value typed equals the secret APP_PASSWORD, the typed value is then
\* gone from the session state, and once true it stays true
SinAcceso(s) ==
    /\ ~ejecucion[s].supabase /\ ~ejecucion[s].cargado
    /\ ~ejecucion[s].escrito
    /\ ejecucion[s].pc \in {"inicio", "detenido"}

C28_Clave ==
    /\ [](\A s \in Sesiones :
              ~password_correct(session_state[s]) => SinAcceso(s))
    /\ [][\A s \in Sesiones :
              /\ password_correct(session_state[s])
                     => password_correct(session_state'[s])
              /\ ~password_correct(session_state[s])
                 /\ password_correct(session_state'[s])
                     => /\ ejecucion'[s].tecleado
                              = Get(secrets, "APP_PASSWORD")
                        /\ "password_input" \notin DOMAIN session_state'[s]]_vars

\* one session is in with the page drawn and a write made, its typed value
\* gone; the other typed a wrong key and is held at the gate
C28_Testigo ==
    /\ password_correct(session_state["s1"])
    /\ "password_input" \notin DOMAIN session_state["s1"]
    /\ ejecucion["s1"].pc = "vista" /\ ejecucion["s1"].escrito
    /\ ejecucion["s2"].pc = "detenido"
    /\ session_state["s2"]["password_input"] = "otra"
    /\ ~password_correct(session_state["s2"])

\* the class of a sale by the rule: days until due below 0 is overdue,
\* 0 to 3 is due soon, and a paid sale has neither
ClasePorRegla(r) ==
    LET dias == IF r.Dias_Credito = <<>> THEN 0 ELSE r.Dias_Credito[1]
        quedan == Ordinal(r.Fecha) + dias - Ordinal(hoy)
    IN  IF r.Estado_Pago # "Pendiente"
        THEN "ninguna"
        ELSE IF quedan < 0
        THEN "vencida"
        ELSE IF quedan <= 3 THEN "urgente" ELSE "ninguna"

IdsEn(filas) == {filas[i].ID : i \in 1..Len(filas)}

ClasesDelAviso(r) ==
    {c \in {"vencida", "urgente"} :
        \/ c = "vencida" /\ r.ID \in IdsEn(alertas_criticas[1].vencidas)
        \/ c = "urgente" /\ r.ID \in IdsEn(alertas_criticas[1].urgentes)}

ClaseDelColor(color) ==
    IF color = Rojo
    THEN "vencida"
    ELSE IF color = Amarillo THEN "urgente" ELSE "ninguna"

Intentados == Concatenar(intentos)

\* C30: the batches sent are consecutive slices of at most 100 records, so
\* the records sent are a prefix of the prepared ones with each sent once;
\* total_insertados + errores counts them, and at the summary every
\* prepared record has been sent, whatever batches failed
C30_Lotes ==
    /\ \A n \in 1..Len(intentos) :
           Len(intentos[n]) >= 1 /\ Len(intentos[n]) <= 100
    /\ Len(Intentados) <= Len(registros)
    /\ Intentados = SubSeq(registros, 1, Len(Intentados))
    /\ total_insertados + errores_carga = Len(Intentados)
    /\ total_insertados = Len(ventas_2025)
    /\ etapa = "resumen" =>
           /\ Intentados = registros
           /\ total_insertados + errores_carga = Len(registros)

\* 250 records: the first batch of 100 failed, the second of 100 and the
\* last of 50 were inserted
C30_Testigo ==
    /\ etapa = "resumen" /\ Len(registros) = 250
    /\ Len(intentos) = 3 /\ Len(intentos[3]) = 50
    /\ errores_carga = 100 /\ total_insertados = 150
    /\ ventas_2025 = SubSeq(registros, 101, 250)

====
